---- MODULE Spec2Model ----
(***************************************************************************)
(* Model of the recipe cost engine of Zavod (src/database.py):             *)
(* Database.calculate_recipe_cost and the Database write operations that   *)
(* build the store it reads.                                               *)
(*                                                                         *)
(* Numbers are Python decimal.Decimal values.  A Decimal is modelled by    *)
(* its numeric value in canonical form [sign, digits, exp]:                *)
(*     value = sign * (digits read as a base-10 numeral) * 10^exp          *)
(* with digits most-significant first, no leading and no trailing zero     *)
(* (zero is [sign |-> 0, digits |-> <<>>, exp |-> 0]).  Every arithmetic   *)
(* operation rounds its exact result to Prec significant digits,           *)
(* ROUND_HALF_EVEN, as the default decimal context does.                   *)
(***************************************************************************)
EXTENDS Integers, Sequences, FiniteSets, TLC

\* decimal.getcontext().prec of the default context the module computes in
Prec == 28

----------------------------------------------------------------------------
(* Digit strings (magnitudes), most significant digit first.               *)

\* d without its leading zeros
StripLead(d) ==
    LET nz == {i \in 1..Len(d) : d[i] # 0}
    IN  IF nz = {} THEN <<>>
        ELSE SubSeq(d, CHOOSE i \in nz : \A j \in nz : i <= j, Len(d))

\* number of trailing zero digits of d
TrailZeros(d) ==
    LET nz == {i \in 1..Len(d) : d[i] # 0}
    IN  IF nz = {} THEN Len(d)
        ELSE Len(d) - (CHOOSE i \in nz : \A j \in nz : j <= i)

Zeros(n) == [i \in 1..n |-> 0]

\* -1, 0, 1 as a < b, a = b, a > b; a and b without leading zeros
MagCmp(a, b) ==
    IF Len(a) # Len(b) THEN (IF Len(a) < Len(b) THEN -1 ELSE 1)
    ELSE LET diff == {i \in 1..Len(a) : a[i] # b[i]}
         IN  IF diff = {} THEN 0
             ELSE LET k == CHOOSE i \in diff : \A j \in diff : i <= j
                  IN  IF a[k] < b[k] THEN -1 ELSE 1

\* smallest element of a nonempty set of integers
MinOf(S) == CHOOSE i \in S : \A j \in S : i <= j

\* the carry column j hands on when none enters it
CarryOut(col, dir, j) ==
    IF dir = 1 THEN (IF col[j] >= 10 THEN 1 ELSE 0)
    ELSE (IF col[j] < 0 THEN -1 ELSE 0)

\* the carry entering a column, below being the less significant columns
\* that do not just hand on the carry they get
CarryIn(col, dir, below) ==
    IF below = {} THEN 0 ELSE CarryOut(col, dir, MinOf(below))

\* The digit string of the column values col (most significant first) when
\* every carry is 0 or dir: dir = 1 for columns in 0..18 (a sum of two
\* digits), dir = -1 for columns in -9..9 (a difference of two digits, the
\* whole being >= 0).  The carry entering a column is decided by the
\* nearest less significant column that does not hand its carry on.
Resolve(col, dir) ==
    StripLead([i \in 1..(Len(col) + 1) |->
        ((IF i = 1 THEN 0 ELSE col[i - 1])
         + CarryIn(col, dir,
                   {j \in i..Len(col) : col[j] # (IF dir = 1 THEN 9 ELSE 0)})) % 10])

\* digit i of d when d is written with n digits
Digit(d, n, i) == IF i <= n - Len(d) THEN 0 ELSE d[i - (n - Len(d))]

Longer(a, b) == IF Len(a) > Len(b) THEN Len(a) ELSE Len(b)

MagAdd(a, b) ==
    Resolve([i \in 1..Longer(a, b) |->
                Digit(a, Longer(a, b), i) + Digit(b, Longer(a, b), i)], 1)

\* a - b for a >= b
MagSub(a, b) ==
    Resolve([i \in 1..Len(a) |-> a[i] - Digit(b, Len(a), i)], -1)

RECURSIVE SumRange(_, _, _)
SumRange(f, lo, hi) ==
    IF lo > hi THEN 0
    ELSE IF lo = hi THEN f[lo]
    ELSE LET mid == (lo + hi) \div 2
         IN  SumRange(f, lo, mid) + SumRange(f, mid + 1, hi)

\* one pass of carrying: every column keeps its last digit and takes the
\* rest of the column to its right; a new leading column takes the rest of
\* the first
CarryPass(col) ==
    [i \in 1..(Len(col) + 1) |->
        (IF i = 1 THEN 0 ELSE col[i - 1] % 10)
        + (IF i > Len(col) THEN 0 ELSE col[i] \div 10)]

\* the digit string of nonnegative column values of any size
RECURSIVE Carry(_)
Carry(col) ==
    IF \A i \in 1..Len(col) : col[i] <= 18 THEN Resolve(col, 1)
    ELSE Carry(CarryPass(col))

\* schoolbook product: column k holds the sum of a[i] * b[j] with i + j = k + 1
Column(a, b, lo, hi, k) == SumRange([i \in lo..hi |-> a[i] * b[k + 1 - i]], lo, hi)

MagMul(a, b) ==
    IF a = <<>> \/ b = <<>> THEN <<>>
    ELSE Carry([k \in 1..(Len(a) + Len(b) - 1) |->
                  Column(a, b,
                         IF k + 1 - Len(b) > 1 THEN k + 1 - Len(b) ELSE 1,
                         IF k < Len(a) THEN k ELSE Len(a), k)])

\* digit string plus one
MagInc(d) == MagAdd(d, <<1>>)

----------------------------------------------------------------------------
(* Decimal values.                                                         *)

DZero == [sign |-> 0, digits |-> <<>>, exp |-> 0]

\* canonical form of sign * d * 10^e
Canonical(s, sd, e, tz) ==
    IF sd = <<>> \/ s = 0 THEN DZero
    ELSE [sign |-> s, digits |-> SubSeq(sd, 1, Len(sd) - tz), exp |-> e + tz]

Mk(s, d, e) == Canonical(s, StripLead(d), e, TrailZeros(d))

\* sign * d * 10^e (plus a nonzero tail below the last digit when sticky)
\* rounded to p significant digits, ROUND_HALF_EVEN
\* keep is rounded up: rest is the digits dropped, low says that something
\* nonzero follows the first of them
RoundsUp(keep, half, low) ==
    \/ half > 5
    \/ half = 5 /\ low
    \/ half = 5 /\ ~low /\ keep[Len(keep)] % 2 = 1

Rounded(s, keep, rest, e, sticky) ==
    Mk(s,
       IF RoundsUp(keep, rest[1], sticky \/ \E i \in 2..Len(rest) : rest[i] # 0)
       THEN MagInc(keep) ELSE keep,
       e + Len(rest))

RoundStripped(s, sd, e, sticky, p) ==
    IF Len(sd) <= p THEN Canonical(s, sd, e, TrailZeros(sd))
    ELSE Rounded(s, SubSeq(sd, 1, p), SubSeq(sd, p + 1, Len(sd)), e, sticky)

RoundTo(s, d, e, sticky, p) == RoundStripped(s, StripLead(d), e, sticky, p)

Round(s, d, e, sticky) == RoundTo(s, d, e, sticky, Prec)

\* Decimal.__mul__
DMul(a, b) ==
    IF a.sign = 0 \/ b.sign = 0 THEN DZero
    ELSE Round(a.sign * b.sign, MagMul(a.digits, b.digits), a.exp + b.exp, FALSE)

\* Decimal.__add__
\* the exact sum of sa * da * 10^e and sb * db * 10^e, c comparing da with db
SignedSum(sa, da, sb, db, c, e) ==
    IF sa = sb THEN [sign |-> sa, digits |-> MagAdd(da, db), exp |-> e]
    ELSE IF c = 0 THEN DZero
    ELSE [sign   |-> IF c > 0 THEN sa ELSE sb,
          digits |-> MagSub(IF c > 0 THEN da ELSE db, IF c > 0 THEN db ELSE da),
          exp    |-> e]

\* the exact sum of two nonzero Decimals, e the smaller of their exponents
ExactSum(a, b, e) ==
    SignedSum(a.sign, a.digits \o Zeros(a.exp - e),
              b.sign, b.digits \o Zeros(b.exp - e),
              MagCmp(a.digits \o Zeros(a.exp - e), b.digits \o Zeros(b.exp - e)), e)

RoundValue(x) == Round(x.sign, x.digits, x.exp, FALSE)

\* Decimal.__add__
DAdd(a, b) ==
    RoundValue(IF a.sign = 0 THEN b
               ELSE IF b.sign = 0 THEN a
               ELSE ExactSum(a, b, IF a.exp < b.exp THEN a.exp ELSE b.exp))

DLe0(a) == a.sign <= 0
DGt0(a) == a.sign > 0

\* the decimal digits of a natural number
RECURSIVE NatDigits(_)
NatDigits(n) == IF n = 0 THEN <<>> ELSE NatDigits(n \div 10) \o <<n % 10>>

\* the natural number a short digit string denotes
RECURSIVE NatOf(_)
NatOf(d) == IF d = <<>> THEN 0 ELSE NatOf(SubSeq(d, 1, Len(d) - 1)) * 10 + d[Len(d)]

\* largest q in 0..9 with q * b <= r, and the remainder r - q * b, for
\* r < 10 * b; a divisor of at most 8 digits is divided in machine integers
ShortQuot(rn, bn) == [q |-> rn \div bn, r |-> NatDigits(rn % bn)]

LongQuot(r, b, q) == [q |-> q, r |-> MagSub(r, MagMul(b, <<q>>))]

QuotDigit(r, b) ==
    IF Len(b) <= 8 THEN ShortQuot(NatOf(r), NatOf(b))
    ELSE LongQuot(r, b, Cardinality({k \in 1..9 : MagCmp(MagMul(b, <<k>>), r) <= 0}))

\* One step of the long division by b.  st.num: the digits of the dividend
\* not yet brought down (zeros follow them); st.r: the running remainder;
\* st.acc: the quotient digits so far; st.exp: the exponent of the next
\* quotient digit.  The division is over when the dividend is used up with
\* no remainder, or when Prec + 1 significant digits stand (the last one
\* and the remainder decide the rounding).
DivDone(st) ==
    \/ st.num = <<>> /\ st.r = <<>>
    \/ Len(StripLead(st.acc)) > Prec

DivNext(st, qd) ==
    [num |-> IF st.num = <<>> THEN <<>> ELSE Tail(st.num),
     r   |-> qd.r,
     acc |-> st.acc \o <<qd.q>>,
     exp |-> st.exp - 1]

DivStep(st, b) ==
    IF DivDone(st) THEN st
    ELSE DivNext(st, QuotDigit(StripLead(st.r \o <<IF st.num = <<>> THEN 0
                                                     ELSE st.num[1]>>), b))

\* n steps of the long division, the first half of them first
RECURSIVE DivSteps(_, _, _)
DivSteps(st, b, n) ==
    IF n <= 0 \/ DivDone(st) THEN st
    ELSE IF n = 1 THEN DivStep(st, b)
    ELSE DivSteps(DivSteps(st, b, n \div 2), b, n - n \div 2)

\* Decimal.__truediv__ for a nonzero divisor: the first quotient digit that
\* is not 0 comes within Len(b.digits) + 1 steps, Prec more digits follow
Quotient(s, st) ==
    Round(s, st.acc, st.exp + 1, st.r # <<>> \/ StripLead(st.num) # <<>>)

DDiv(a, b) ==
    IF a.sign = 0 THEN DZero
    ELSE Quotient(a.sign * b.sign,
             DivSteps([num |-> a.digits, r |-> <<>>, acc |-> <<>>,
                       exp |-> a.exp - b.exp + Len(a.digits) - 1],
                      b.digits,
                      IF Len(a.digits) > Len(b.digits) + Prec + 1
                      THEN Len(a.digits) ELSE Len(b.digits) + Prec + 1))

\* the Decimal of an integer

\* n * 10^(-k): a literal with k decimal places
DLit(n, k) ==
    Mk(IF n > 0 THEN 1 ELSE IF n < 0 THEN -1 ELSE 0,
       NatDigits(IF n < 0 THEN -n ELSE n), -k)

DInt(n) == DLit(n, 0)

----------------------------------------------------------------------------
(* Values stored in REAL columns.  A number is written as float(x) and     *)
(* read back as Decimal(str(value)).  str gives the shortest numeral that  *)
(* reads back as the same double, so a Decimal of at most 15 significant   *)
(* digits comes back unchanged; a longer one comes back with at most 17    *)
(* significant digits (rounded here in decimal; of the quantities and      *)
(* prices of this model only FinePrice has more than 15, and the double    *)
(* nearest to it is 3.0).                                                  *)

FloatDigits == 15
ReprDigits == 17

float(x) ==
    IF Len(x.digits) <= FloatDigits THEN x
    ELSE RoundTo(x.sign, x.digits, x.exp, FALSE, ReprDigits)

----------------------------------------------------------------------------
(* Names.  SQLite's ORDER BY resource_name and Python's sorted() compare   *)
(* names by code point; NameRank is that order on the names of the model.  *)

Names == {"Bolt", "Frame", "Gadget", "Nut", "Widget"}

NameRank(n) ==
    CASE n = "Bolt"   -> 1
      [] n = "Frame"  -> 2
      [] n = "Gadget" -> 3
      [] n = "Nut"    -> 4
      [] n = "Widget" -> 5

\* str.strip() on the ship types of the model
strip(t) ==
    CASE t = " Frigate " -> "Frigate"
      [] t = "  "        -> ""
      [] OTHER           -> t

\* Optional values: None is <<>>, a value v is <<v>>
None == <<>>
Some(v) == <<v>>

VARIABLES
    recipes,                \* table recipes (with its component tables), by name
    resources,              \* table resources: name -> unit_price
    ship_type_efficiencies, \* table ship_type_efficiencies: type -> efficiency
    config,                 \* table config: key -> value
    call,                   \* the last operation called and its arguments
    result,                 \* what the last operation returned or raised
    writes,                 \* number of write operations done so far
    tasks,                  \* the calls in flight
    lock                    \* self._lock: None, or the call that holds it

vars == <<recipes, resources, ship_type_efficiencies, config, call, result, writes, tasks, lock>>

\* the database the read operations work on
DB == [recipes |-> recipes, resources |-> resources,
       ship_type_efficiencies |-> ship_type_efficiencies, config |-> config]

----------------------------------------------------------------------------
(* Read operations.                                                        *)

\* the place of row i among rows in ORDER BY resource_name order (rows of
\* one name keep their order)
Position(rows, i) ==
    Cardinality({j \in 1..Len(rows) :
        \/ NameRank(rows[j].resource_name) < NameRank(rows[i].resource_name)
        \/ /\ rows[j].resource_name = rows[i].resource_name
           /\ j < i}) + 1

OrderByName(rows) ==
    [k \in 1..Len(rows) |-> rows[CHOOSE i \in 1..Len(rows) : Position(rows, i) = k]]

\* Database.get_recipe: None, or the recipe with both component lists sorted
RecipeOf(name, row) ==
    [name |-> name,
     output_quantity |-> row.output_quantity,
     is_temporary |-> row.is_temporary,
     ship_type |-> IF row.ship_type = Some("") THEN None ELSE row.ship_type,
     blueprint_cost |-> row.blueprint_cost,
     creation_cost |-> row.creation_cost,
     blueprint_creation_cost |-> row.blueprint_creation_cost,
     components |-> OrderByName(row.components),
     blueprint_components |-> OrderByName(row.blueprint_components)]

get_recipe(db, name) ==
    IF name \notin DOMAIN db.recipes THEN None
    ELSE Some(RecipeOf(name, db.recipes[name]))

\* Database.get_resource_unit_price
get_resource_unit_price(db, name) ==
    IF name \in DOMAIN db.resources THEN Some(db.resources[name]) ELSE None

\* Database.get_ship_type_efficiency
get_ship_type_efficiency(db, ship_type) ==
    IF strip(ship_type) \in DOMAIN db.ship_type_efficiencies
    THEN Some(db.ship_type_efficiencies[strip(ship_type)])
    ELSE None

\* Database.get_config_value
get_config_value(db, key) ==
    IF key \in DOMAIN db.config THEN Some(db.config[key]) ELSE None

\* A config value is the text of a Decimal, [text |-> "decimal", value |-> d],
\* or a text Decimal() rejects, [text |-> "other"].
\* Database.get_global_efficiency
parse_efficiency(value_raw) ==
    IF value_raw = None THEN DInt(100)
    ELSE IF value_raw[1].text = "decimal" THEN value_raw[1].value
    ELSE DInt(100)

get_global_efficiency(db) == parse_efficiency(get_config_value(db, "global_efficiency"))

----------------------------------------------------------------------------
(* Database.calculate_recipe_cost.                                         *)

\* exceptions: the class, the message without the name, the name in it
Error(type, message, name) == [type |-> type, message |-> message, name |-> name]

RecipeNotFoundError(name) ==
    Error("RecipeNotFoundError", "Recipe is not defined", name)
CircularRecipeReferenceError(name) ==
    Error("CircularRecipeReferenceError", "Circular reference detected for resource", name)
ResourcePriceNotFoundError(name) ==
    Error("ResourcePriceNotFoundError", "No price registered for resource", name)
InvalidEfficiency ==
    Error("ValueError", "Efficiency must be greater than 0", "")
InvalidRecipe(name) ==
    Error("ValueError", "Recipe must have positive output quantity", name)
\* raised by Decimal.__truediv__ for a zero divisor
DivisionByZero == Error("DivisionByZero", "", "")
DivisionUndefined == Error("InvalidOperation", "", "")

EmptyBreakdown == [n \in {} |-> 0]

\* what a walk returns: error is None or the exception raised; log lists the
\* lookups and expansions the walk made, in order
Walk(error, cost, breakdown, log) ==
    [error |-> error, cost |-> cost, breakdown |-> breakdown, log |-> log]

\* the breakdown of a nested recipe per unit of its output
PerUnit(nested_breakdown, output_quantity) ==
    [base_name \in DOMAIN nested_breakdown |->
        [quantity   |-> DDiv(nested_breakdown[base_name].quantity, output_quantity),
         unit_price |-> nested_breakdown[base_name].unit_price]]

\* a merge that keeps only the last contribution to a base resource
MergedLast(breakdown, base_name, unit_price, total_quantity) ==
    [quantity |-> total_quantity, unit_price |-> unit_price]

\* one entry of the inner loop of recipe_cost: total_quantity added to the
\* quantity breakdown already holds for base_name
Merged(breakdown, base_name, unit_price, total_quantity) ==
    [quantity   |-> IF base_name \in DOMAIN breakdown
                    THEN DAdd(breakdown[base_name].quantity, total_quantity)
                    ELSE total_quantity,
     unit_price |-> unit_price]

\* the inner loop of recipe_cost: component_breakdown merged into breakdown
MergeBreakdown(breakdown, component_breakdown, component_quantity) ==
    [base_name \in DOMAIN breakdown \cup DOMAIN component_breakdown |->
        IF base_name \notin DOMAIN component_breakdown THEN breakdown[base_name]
        ELSE Merged(breakdown, base_name, component_breakdown[base_name].unit_price,
                    DMul(component_breakdown[base_name].quantity, component_quantity))]

\* an entry of the log of a walk
Event(op, name, visiting) == [op |-> op, name |-> name, visiting |-> visiting]

\* a nested cost handed up as it is, not divided by the output quantity
NestedRunCost(resource_name, output_quantity, nested, log) ==
    IF nested.error # None THEN Walk(nested.error, DZero, EmptyBreakdown, log \o nested.log)
    ELSE IF DLe0(output_quantity)
    THEN Walk(Some(InvalidRecipe(resource_name)), DZero, EmptyBreakdown, log \o nested.log)
    ELSE Walk(None, nested.cost, nested.breakdown,
              log \o nested.log \o <<Event("unit_cost", resource_name, {})>>)

\* a nested cost divided only by a positive output quantity, and handed up
\* as it is otherwise
NestedUnitCostUnchecked(resource_name, output_quantity, nested, log) ==
    IF nested.error # None THEN Walk(nested.error, DZero, EmptyBreakdown, log \o nested.log)
    ELSE IF DLe0(output_quantity)
    THEN Walk(None, nested.cost, nested.breakdown,
              log \o nested.log \o <<Event("unit_cost", resource_name, {})>>)
    ELSE Walk(None, DDiv(nested.cost, output_quantity),
              PerUnit(nested.breakdown, output_quantity),
              log \o nested.log \o <<Event("unit_cost", resource_name, {})>>)

\* resource_cost after the nested recipe_cost call has returned
NestedUnitCost(resource_name, output_quantity, nested, log) ==
    IF nested.error # None THEN Walk(nested.error, DZero, EmptyBreakdown, log \o nested.log)
    ELSE IF DLe0(output_quantity)
    THEN Walk(Some(InvalidRecipe(resource_name)), DZero, EmptyBreakdown, log \o nested.log)
    ELSE Walk(None, DDiv(nested.cost, output_quantity),
              PerUnit(nested.breakdown, output_quantity),
              log \o nested.log \o <<Event("unit_cost", resource_name, {})>>)

\* a resource without a price taken to cost nothing
TerminalCostFree(resource_name, price, log) ==
    IF price = None
    THEN Walk(None, DZero,
              (resource_name :> [quantity |-> DInt(1), unit_price |-> DZero]), log)
    ELSE Walk(None, price[1],
              (resource_name :> [quantity |-> DInt(1), unit_price |-> price[1]]), log)

\* resource_cost for a resource that is no recipe, price being what
\* get_resource_unit_price returned
TerminalCost(resource_name, price, log) ==
    IF price = None
    THEN Walk(Some(ResourcePriceNotFoundError(resource_name)), DZero, EmptyBreakdown, log)
    ELSE Walk(None, price[1],
              (resource_name :> [quantity |-> DInt(1), unit_price |-> price[1]]), log)

\* recipe_cost, one turn of its loop: what is accumulated after a component
\* when acc is accumulated before it, component_quantity is its quantity
\* times the multiplier and rc is what resource_cost returned for it
Accumulate(acc, component_quantity, rc) ==
    IF rc.error # None
    THEN Walk(rc.error, DZero, EmptyBreakdown, acc.log \o rc.log)
    ELSE Walk(None,
              DAdd(acc.cost, DMul(component_quantity, rc.cost)),
              MergeBreakdown(acc.breakdown, rc.breakdown, component_quantity),
              acc.log \o rc.log)

RECURSIVE resource_cost(_, _, _, _)
RECURSIVE recipe_loop(_, _, _, _, _, _)
RECURSIVE recipe_loop_visited(_, _, _, _, _, _)

\* the names a walk has expanded
ExpandedNames(log) == {log[k].name : k \in {j \in 1..Len(log) : log[j].op = "expand"}}

\* a loop whose visiting set keeps the recipes the earlier components expanded
recipe_loop_visited(db, components, i, visiting, quantity_multiplier, acc) ==
    IF acc.error # None \/ i > Len(components) THEN acc
    ELSE recipe_loop_visited(db, components, i + 1, visiting, quantity_multiplier,
             Accumulate(acc, DMul(components[i].quantity, quantity_multiplier),
                        resource_cost(db, components[i].resource_name,
                                      visiting \cup ExpandedNames(acc.log),
                                      quantity_multiplier)))

\* recipe_cost: the loop over recipe["components"] from component i on
recipe_loop(db, components, i, visiting, quantity_multiplier, acc) ==
    IF acc.error # None \/ i > Len(components) THEN acc
    ELSE recipe_loop(db, components, i + 1, visiting, quantity_multiplier,
             Accumulate(acc, DMul(components[i].quantity, quantity_multiplier),
                        resource_cost(db, components[i].resource_name, visiting,
                                      quantity_multiplier)))

recipe_cost(db, recipe, visiting, quantity_multiplier) ==
    recipe_loop(db, recipe.components, 1, visiting, quantity_multiplier,
                Walk(None, DZero, EmptyBreakdown, <<>>))

\* a lookup that takes a name with a stored price for a resource, whether
\* or not a recipe of that name exists
resource_lookup_priced(db, resource_name, visiting, quantity_multiplier, nested_recipe) ==
    IF nested_recipe # None /\ get_resource_unit_price(db, resource_name) = None
    THEN NestedUnitCost(resource_name, nested_recipe[1].output_quantity,
             recipe_cost(db, nested_recipe[1], visiting \cup {resource_name},
                         quantity_multiplier),
             <<Event("get_recipe", resource_name, visiting),
               Event("expand", resource_name, visiting)>>)
    ELSE TerminalCost(resource_name, get_resource_unit_price(db, resource_name),
             <<Event("get_recipe", resource_name, visiting),
               Event("get_price", resource_name, visiting)>>)

\* a lookup that expands the nested recipe at multiplier 1: the efficiency
\* scales the components of the recipe costed alone
resource_lookup_uniform(db, resource_name, visiting, quantity_multiplier, nested_recipe) ==
    IF nested_recipe # None
    THEN NestedUnitCost(resource_name, nested_recipe[1].output_quantity,
             recipe_cost(db, nested_recipe[1], visiting \cup {resource_name}, DInt(1)),
             <<Event("get_recipe", resource_name, visiting),
               Event("expand", resource_name, visiting)>>)
    ELSE TerminalCost(resource_name, get_resource_unit_price(db, resource_name),
             <<Event("get_recipe", resource_name, visiting),
               Event("get_price", resource_name, visiting)>>)

\* resource_cost once get_recipe has returned nested_recipe
resource_lookup(db, resource_name, visiting, quantity_multiplier, nested_recipe) ==
    IF nested_recipe # None
    THEN NestedUnitCost(resource_name, nested_recipe[1].output_quantity,
             recipe_cost(db, nested_recipe[1], visiting \cup {resource_name},
                         quantity_multiplier),
             <<Event("get_recipe", resource_name, visiting),
               Event("expand", resource_name, visiting)>>)
    ELSE TerminalCost(resource_name, get_resource_unit_price(db, resource_name),
             <<Event("get_recipe", resource_name, visiting),
               Event("get_price", resource_name, visiting)>>)

\* a recipe met again on its own expansion path taken for a priced resource
resource_cost_unguarded(db, resource_name, visiting, quantity_multiplier) ==
    IF resource_name \in visiting
    THEN TerminalCost(resource_name, get_resource_unit_price(db, resource_name), <<>>)
    ELSE resource_lookup(db, resource_name, visiting, quantity_multiplier,
                         get_recipe(db, resource_name))

resource_cost(db, resource_name, visiting, quantity_multiplier) ==
    IF resource_name \in visiting
    THEN Walk(Some(CircularRecipeReferenceError(resource_name)), DZero, EmptyBreakdown, <<>>)
    ELSE resource_lookup(db, resource_name, visiting, quantity_multiplier,
                         get_recipe(db, resource_name))

\* the names of a breakdown from the last to the first
DescendingNames(S) ==
    [k \in 1..Cardinality(S) |->
        CHOOSE n \in S : Cardinality({m \in S : NameRank(m) > NameRank(n)}) = k - 1]

\* the names of a breakdown in sorted() order
SortedNames(S) ==
    [k \in 1..Cardinality(S) |->
        CHOOSE n \in S : Cardinality({m \in S : NameRank(m) < NameRank(n)}) = k - 1]

\* the breakdown entries in the order names lists them
Entries(breakdown, names) ==
    [k \in 1..Len(names) |->
        [resource_name |-> names[k],
         quantity      |-> breakdown[names[k]].quantity,
         unit_cost     |-> breakdown[names[k]].unit_price,
         total_cost    |-> DMul(breakdown[names[k]].unit_price,
                                breakdown[names[k]].quantity)]]

\* the list of breakdown entries the result carries
BreakdownList(breakdown) == Entries(breakdown, SortedNames(DOMAIN breakdown))

Raise(error, log) == [raised |-> Some(error), log |-> log]

\* a resolution that passes over the efficiency of the ship type
EfficiencyWithoutShipType(db, efficiency, type_efficiency) ==
    IF efficiency # None THEN [efficiency |-> efficiency[1], source |-> "custom"]
    ELSE [efficiency |-> get_global_efficiency(db), source |-> "global"]

\* the efficiency and its source, type_efficiency being the efficiency of
\* the recipe's ship type if it has one
EfficiencyOf(db, efficiency, type_efficiency) ==
    IF efficiency # None THEN [efficiency |-> efficiency[1], source |-> "custom"]
    ELSE IF type_efficiency # None
    THEN [efficiency |-> type_efficiency[1], source |-> "ship_type"]
    ELSE [efficiency |-> get_global_efficiency(db), source |-> "global"]

ResolveEfficiency(db, base_recipe, efficiency) ==
    EfficiencyOf(db, efficiency,
        IF base_recipe.ship_type # None /\ base_recipe.ship_type[1] # ""
        THEN get_ship_type_efficiency(db, base_recipe.ship_type[1])
        ELSE None)

\* the optional cost added to the total
AddOptional(total, cost) == IF cost = None THEN total ELSE DAdd(total, cost[1])

\* a total that leaves the creation cost out
TotalWithoutCreation(base_recipe, walk, blueprint_walk) ==
    AddOptional(AddOptional(
        DAdd(walk.cost, blueprint_walk.cost),
        base_recipe.blueprint_cost),
        base_recipe.blueprint_creation_cost)

TotalWithAdditions(base_recipe, walk, blueprint_walk) ==
    AddOptional(AddOptional(AddOptional(
        DAdd(walk.cost, blueprint_walk.cost),
        base_recipe.blueprint_cost),
        base_recipe.creation_cost),
        base_recipe.blueprint_creation_cost)

\* the dictionary calculate_recipe_cost returns
CostResult(base_recipe, resolved, walk, blueprint_walk, total_with_additions) ==
    [raised |-> None,
     log |-> walk.log \o blueprint_walk.log,
     efficiency |-> resolved.efficiency,
     run_cost |-> walk.cost,
     unit_cost |-> DDiv(walk.cost, base_recipe.output_quantity),
     output_quantity |-> base_recipe.output_quantity,
     components |-> BreakdownList(walk.breakdown),
     ship_type |-> base_recipe.ship_type,
     efficiency_source |-> resolved.source,
     blueprint_cost |-> base_recipe.blueprint_cost,
     creation_cost |-> base_recipe.creation_cost,
     blueprint_creation_cost |-> base_recipe.blueprint_creation_cost,
     total_with_additions |-> total_with_additions,
     unit_cost_with_additions |->
         IF DGt0(base_recipe.output_quantity)
         THEN DDiv(total_with_additions, base_recipe.output_quantity)
         ELSE total_with_additions,
     blueprint_components |-> BreakdownList(blueprint_walk.breakdown),
     blueprint_components_cost |-> blueprint_walk.cost]

\* an error of the walk of the blueprint components caught, the blueprint
\* components taken to cost nothing
CostAfterBlueprintWalkCaught(base_recipe, resolved, walk, blueprint_walk) ==
    IF blueprint_walk.error # None
    THEN CostResult(base_recipe, resolved, walk,
                    Walk(None, DZero, EmptyBreakdown, blueprint_walk.log),
                    TotalWithAdditions(base_recipe, walk,
                                       Walk(None, DZero, EmptyBreakdown, <<>>)))
    ELSE CostResult(base_recipe, resolved, walk, blueprint_walk,
                    TotalWithAdditions(base_recipe, walk, blueprint_walk))

\* calculate_recipe_cost once the walk of the blueprint components has returned
CostAfterBlueprintWalk(base_recipe, resolved, walk, blueprint_walk) ==
    IF blueprint_walk.error # None
    THEN Raise(blueprint_walk.error[1], walk.log \o blueprint_walk.log)
    ELSE CostResult(base_recipe, resolved, walk, blueprint_walk,
                    TotalWithAdditions(base_recipe, walk, blueprint_walk))

\* a walk of the blueprint components at the multiplier of the efficiency
CostAfterWalkScaled(db, recipe_name, base_recipe, resolved, walk) ==
    IF walk.error # None THEN Raise(walk.error[1], walk.log)
    ELSE IF base_recipe.output_quantity.sign = 0
    THEN Raise(IF walk.cost.sign = 0 THEN DivisionUndefined ELSE DivisionByZero, walk.log)
    ELSE CostAfterBlueprintWalk(base_recipe, resolved, walk,
             IF base_recipe.blueprint_components = <<>>
             THEN Walk(None, DZero, EmptyBreakdown, <<>>)
             ELSE recipe_cost(db, [components |-> base_recipe.blueprint_components],
                              {recipe_name}, DDiv(resolved.efficiency, DInt(100))))

\* a walk of the blueprint components that starts with no name in visiting
CostAfterWalkUnseeded(db, recipe_name, base_recipe, resolved, walk) ==
    IF walk.error # None THEN Raise(walk.error[1], walk.log)
    ELSE IF base_recipe.output_quantity.sign = 0
    THEN Raise(IF walk.cost.sign = 0 THEN DivisionUndefined ELSE DivisionByZero, walk.log)
    ELSE CostAfterBlueprintWalk(base_recipe, resolved, walk,
             IF base_recipe.blueprint_components = <<>>
             THEN Walk(None, DZero, EmptyBreakdown, <<>>)
             ELSE recipe_cost(db, [components |-> base_recipe.blueprint_components],
                              {}, DInt(1)))

\* calculate_recipe_cost once the walk of the components has returned: the
\* unit cost is divided out before the blueprint components are walked
CostAfterWalk(db, recipe_name, base_recipe, resolved, walk) ==
    IF walk.error # None THEN Raise(walk.error[1], walk.log)
    ELSE IF base_recipe.output_quantity.sign = 0
    THEN Raise(IF walk.cost.sign = 0 THEN DivisionUndefined ELSE DivisionByZero, walk.log)
    ELSE CostAfterBlueprintWalk(base_recipe, resolved, walk,
             IF base_recipe.blueprint_components = <<>>
             THEN Walk(None, DZero, EmptyBreakdown, <<>>)
             ELSE recipe_cost(db, [components |-> base_recipe.blueprint_components],
                              {recipe_name}, DInt(1)))

\* an efficiency check that lets 0 through
CostAtNonNegativeEfficiency(db, recipe_name, base_recipe, resolved) ==
    IF resolved.efficiency.sign < 0 THEN Raise(InvalidEfficiency, <<>>)
    ELSE CostAfterWalk(db, recipe_name, base_recipe, resolved,
             recipe_cost(db, base_recipe, {recipe_name},
                         DDiv(resolved.efficiency, DInt(100))))

\* calculate_recipe_cost once the efficiency is resolved
CostAtEfficiency(db, recipe_name, base_recipe, resolved) ==
    IF DLe0(resolved.efficiency) THEN Raise(InvalidEfficiency, <<>>)
    ELSE CostAfterWalk(db, recipe_name, base_recipe, resolved,
             recipe_cost(db, base_recipe, {recipe_name},
                         DDiv(resolved.efficiency, DInt(100))))

\* an efficiency argument checked before the recipe is looked for
CostOfRecipeEfficiencyFirst(db, recipe_name, efficiency, base_recipe) ==
    IF efficiency # None /\ DLe0(efficiency[1]) THEN Raise(InvalidEfficiency, <<>>)
    ELSE IF base_recipe = None THEN Raise(RecipeNotFoundError(recipe_name), <<>>)
    ELSE CostAtEfficiency(db, recipe_name, base_recipe[1],
                          ResolveEfficiency(db, base_recipe[1], efficiency))

\* calculate_recipe_cost once get_recipe has returned base_recipe
CostOfRecipe(db, recipe_name, efficiency, base_recipe) ==
    IF base_recipe = None THEN Raise(RecipeNotFoundError(recipe_name), <<>>)
    ELSE CostAtEfficiency(db, recipe_name, base_recipe[1],
                          ResolveEfficiency(db, base_recipe[1], efficiency))

calculate_recipe_cost(db, recipe_name, efficiency) ==
    CostOfRecipe(db, recipe_name, efficiency, get_recipe(db, recipe_name))

----------------------------------------------------------------------------
(* Write operations.  Each runs under the database lock from its first     *)
(* statement to its commit.                                                *)

RecipeComponent(resource_name, quantity, unit_price) ==
    [resource_name |-> resource_name, quantity |-> quantity, unit_price |-> unit_price]

\* the rows add_recipe inserts into recipe_components
ComponentRows(components) ==
    [i \in 1..Len(components) |->
        [resource_name |-> components[i].resource_name,
         quantity      |-> float(components[i].quantity)]]

\* table resources after inserts that leave a price already stored alone
RECURSIVE InsertPrices(_, _, _)
InsertPrices(table, components, i) ==
    IF i > Len(components) THEN table
    ELSE InsertPrices(
             [n \in DOMAIN table \cup {components[i].resource_name} |->
                 IF n \in DOMAIN table THEN table[n]
                 ELSE float(components[i].unit_price)],
             components, i + 1)

\* table resources after the upserts of components i, i + 1, ...
RECURSIVE UpsertPrices(_, _, _)
UpsertPrices(table, components, i) ==
    IF i > Len(components) THEN table
    ELSE UpsertPrices(
             [n \in DOMAIN table \cup {components[i].resource_name} |->
                 IF n = components[i].resource_name
                 THEN float(components[i].unit_price) ELSE table[n]],
             components, i + 1)

\* (ship_type or "").strip() or None
NormaliseShipType(ship_type) ==
    IF ship_type = None \/ strip(ship_type[1]) = "" THEN None
    ELSE Some(strip(ship_type[1]))

\* were the statement INSERT OR REPLACE: the row is written afresh
RecipesAfterAdd_replaced(table, name, output_quantity, components, is_temporary, ship_type) ==
    [n \in DOMAIN table \cup {name} |->
        IF n # name THEN table[n]
        ELSE [output_quantity |-> float(output_quantity),
              is_temporary |-> is_temporary,
              ship_type |-> NormaliseShipType(ship_type),
              blueprint_cost |-> None,
              creation_cost |-> None,
              blueprint_creation_cost |-> None,
              components |-> ComponentRows(components),
              blueprint_components |-> <<>>]]

\* table recipes after add_recipe
RecipesAfterAdd(table, name, output_quantity, components, is_temporary, ship_type) ==
    [n \in DOMAIN table \cup {name} |->
        IF n # name THEN table[n]
        ELSE IF name \notin DOMAIN table
        THEN [output_quantity |-> float(output_quantity),
              is_temporary |-> is_temporary,
              ship_type |-> NormaliseShipType(ship_type),
              blueprint_cost |-> None,
              creation_cost |-> None,
              blueprint_creation_cost |-> None,
              components |-> ComponentRows(components),
              blueprint_components |-> <<>>]
        ELSE [table[name] EXCEPT
                 !.output_quantity = float(output_quantity),
                 !.is_temporary = is_temporary,
                 !.ship_type = NormaliseShipType(ship_type),
                 !.components = ComponentRows(components)]]

Returned(value) == [raised |-> None, value |-> value]

\* Database.add_recipe
add_recipe(name, output_quantity, components, is_temporary, ship_type) ==
    /\ recipes' = RecipesAfterAdd(recipes, name, output_quantity, components,
                                  is_temporary, ship_type)
    /\ resources' = UpsertPrices(resources, components, 1)
    /\ call' = [op |-> "add_recipe", name |-> name, components |-> components,
                output_quantity |-> output_quantity, is_temporary |-> is_temporary,
                ship_type |-> ship_type]
    /\ result' = Returned("None")
    /\ UNCHANGED <<ship_type_efficiencies, config>>

\* Database.delete_recipe: the component rows go with the recipe (ON DELETE CASCADE)
delete_recipe(name) ==
    /\ recipes' = [n \in DOMAIN recipes \ {name} |-> recipes[n]]
    /\ call' = [op |-> "delete_recipe", name |-> name]
    /\ result' = Returned(name \in DOMAIN recipes)
    /\ UNCHANGED <<resources, ship_type_efficiencies, config>>

\* Database.set_ship_type_efficiency
set_ship_type_efficiency(ship_type, efficiency) ==
    /\ call' = [op |-> "set_ship_type_efficiency", name |-> ship_type]
    /\ IF strip(ship_type) = ""
       THEN /\ result' = [raised |-> Some(Error("ValueError", "Ship type must not be empty", "")),
                          log |-> <<>>]
            /\ UNCHANGED ship_type_efficiencies
       ELSE /\ ship_type_efficiencies' =
                   [t \in DOMAIN ship_type_efficiencies \cup {strip(ship_type)} |->
                       IF t = strip(ship_type) THEN float(efficiency)
                       ELSE ship_type_efficiencies[t]]
            /\ result' = Returned("None")
    /\ UNCHANGED <<recipes, resources, config>>

\* Database.delete_ship_type_efficiency
delete_ship_type_efficiency(ship_type) ==
    /\ ship_type_efficiencies' =
           [t \in DOMAIN ship_type_efficiencies \ {strip(ship_type)} |->
               ship_type_efficiencies[t]]
    /\ call' = [op |-> "delete_ship_type_efficiency", name |-> ship_type]
    /\ result' = Returned(strip(ship_type) \in DOMAIN ship_type_efficiencies)
    /\ UNCHANGED <<recipes, resources, config>>

\* Database.set_config_value
set_config_value(key, value) ==
    /\ config' = [k \in DOMAIN config \cup {key} |-> IF k = key THEN value ELSE config[k]]
    /\ call' = [op |-> "set_config_value", name |-> key]
    /\ result' = Returned("None")
    /\ UNCHANGED <<recipes, resources, ship_type_efficiencies>>

\* Database.set_global_efficiency: str(efficiency) is stored
set_global_efficiency(efficiency) ==
    set_config_value("global_efficiency", [text |-> "decimal", value |-> efficiency])

\* Database.pop_config_value
pop_config_value(key) ==
    /\ config' = [k \in DOMAIN config \ {key} |-> config[k]]
    /\ call' = [op |-> "pop_config_value", name |-> key]
    /\ result' = Returned(get_config_value(DB, key))
    /\ UNCHANGED <<recipes, resources, ship_type_efficiencies>>

\* UPDATE recipes SET column = value WHERE name = name
RecipesAfterUpdate(table, name, column, value) ==
    [table EXCEPT ![name] = [@ EXCEPT ![column] = value]]

Raised(error) == [raised |-> Some(error), log |-> <<>>]

\* Database.set_recipe_temporary
set_recipe_temporary(name, is_temporary) ==
    /\ call' = [op |-> "set_recipe_temporary", name |-> name]
    /\ recipes' = IF name \in DOMAIN recipes
                  THEN RecipesAfterUpdate(recipes, name, "is_temporary", is_temporary)
                  ELSE recipes
    /\ result' = Returned(name \in DOMAIN recipes)
    /\ UNCHANGED <<resources, ship_type_efficiencies, config>>

\* float(cost) if cost is not None else None
OptionalFloat(cost) == IF cost = None THEN None ELSE Some(float(cost[1]))

\* the three setters of a one-off cost, column being the column each updates
set_recipe_cost(op, column, name, cost) ==
    /\ call' = [op |-> op, name |-> name]
    /\ IF name \in DOMAIN recipes
       THEN /\ recipes' = RecipesAfterUpdate(recipes, name, column, OptionalFloat(cost))
            /\ result' = Returned("None")
       ELSE /\ UNCHANGED recipes
            /\ result' = Raised(RecipeNotFoundError(name))
    /\ UNCHANGED <<resources, ship_type_efficiencies, config>>

\* Database.set_recipe_blueprint_cost
set_recipe_blueprint_cost(name, cost) ==
    set_recipe_cost("set_recipe_blueprint_cost", "blueprint_cost", name, cost)

\* Database.set_recipe_blueprint_creation_cost
set_recipe_blueprint_creation_cost(name, cost) ==
    set_recipe_cost("set_recipe_blueprint_creation_cost", "blueprint_creation_cost", name, cost)

\* Database.set_recipe_creation_cost
set_recipe_creation_cost(name, cost) ==
    set_recipe_cost("set_recipe_creation_cost", "creation_cost", name, cost)

\* Database.set_recipe_blueprint_components: nothing is written when the
\* recipe is not found
set_recipe_blueprint_components(name, components) ==
    /\ call' = [op |-> "set_recipe_blueprint_components", name |-> name,
                components |-> components]
    /\ IF name \in DOMAIN recipes
       THEN /\ recipes' = RecipesAfterUpdate(recipes, name, "blueprint_components",
                                             ComponentRows(components))
            /\ resources' = UpsertPrices(resources, components, 1)
            /\ result' = Returned("None")
       ELSE /\ UNCHANGED <<recipes, resources>>
            /\ result' = Raised(RecipeNotFoundError(name))
    /\ UNCHANGED <<ship_type_efficiencies, config>>

\* a call that stores the cost it computed as the price of the name costed
CalculateRecipeCostStoring(recipe_name, efficiency) ==
    /\ call' = [op |-> "calculate_recipe_cost", name |-> recipe_name,
                efficiency |-> efficiency]
    /\ result' = calculate_recipe_cost(DB, recipe_name, efficiency)
    /\ resources' = IF result'.raised # None THEN resources
                    ELSE [n \in DOMAIN resources \cup {recipe_name} |->
                             IF n = recipe_name THEN result'.unit_cost ELSE resources[n]]
    /\ UNCHANGED <<recipes, ship_type_efficiencies, config, writes, tasks, lock>>

\* a caller awaits Database.calculate_recipe_cost
CalculateRecipeCost(recipe_name, efficiency) ==
    /\ call' = [op |-> "calculate_recipe_cost", name |-> recipe_name,
                efficiency |-> efficiency]
    /\ result' = calculate_recipe_cost(DB, recipe_name, efficiency)
    /\ UNCHANGED <<recipes, resources, ship_type_efficiencies, config, writes, tasks, lock>>

----------------------------------------------------------------------------
(* The database files the bot is started on, and the calls made.           *)

Row(output_quantity, ship_type, components, blueprint_components, blueprint_cost, creation_cost, blueprint_creation_cost) ==
    [output_quantity |-> output_quantity,
     is_temporary |-> FALSE,
     ship_type |-> ship_type,
     blueprint_cost |-> blueprint_cost,
     creation_cost |-> creation_cost,
     blueprint_creation_cost |-> blueprint_creation_cost,
     components |-> components,
     blueprint_components |-> blueprint_components]

Line(resource_name, quantity) ==
    [resource_name |-> resource_name, quantity |-> DInt(quantity)]

GlobalEfficiencyRow == ("global_efficiency" :> [text |-> "decimal", value |-> DInt(100)])

\* a file Database.connect has just created: the schema and the default
\* global efficiency
FreshFile ==
    [recipes |-> [n \in {} |-> 0],
     resources |-> [n \in {} |-> 0],
     ship_type_efficiencies |-> [n \in {} |-> 0],
     config |-> GlobalEfficiencyRow]

\* a file holding the recipes of Scenario A: Widget (output 1) needs 2 Bolt
\* and 1 Gadget, Gadget (output 2) needs 4 Bolt, Bolt costs 3
ScenarioFile ==
    [recipes |->
        ("Widget" :> Row(DInt(1), Some("Frigate"),
                         <<Line("Gadget", 1), Line("Bolt", 2)>>, <<>>, None, None, None))
        @@ ("Gadget" :> Row(DInt(2), None, <<Line("Bolt", 4)>>, <<>>, None, None, None)),
     resources |-> ("Bolt" :> DInt(3)) @@ ("Gadget" :> DInt(6)),
     ship_type_efficiencies |-> [n \in {} |-> 0],
     config |-> GlobalEfficiencyRow]

\* a file written by other hands than add_recipe: three levels of recipes,
\* Nut consumed at the first and the third level and never priced, Gadget
\* with blueprint components and one-off costs
LegacyFile ==
    [recipes |->
        ("Widget" :> Row(DInt(1), None,
                         <<Line("Gadget", 1), Line("Nut", 2)>>, <<>>, None, None, None))
        @@ ("Gadget" :> Row(DInt(2), Some("Frigate"),
                            <<Line("Frame", 1), Line("Bolt", 4)>>,
                            <<Line("Bolt", 3)>>, Some(DInt(50)), None, Some(DInt(7))))
        @@ ("Frame" :> Row(DInt(5), None,
                           <<Line("Bolt", 25), Line("Nut", 10)>>, <<>>, None, None, None)),
     resources |-> ("Bolt" :> DInt(4)),
     ship_type_efficiencies |-> ("Frigate" :> DInt(200)),
     config |-> GlobalEfficiencyRow]

\* a file holding a recipe shared by two branches: Widget needs Frame and
\* Gadget, both need Nut, Nut is made of Bolt; every name a recipe consumes
\* has the price add_recipe stored for it
DiamondFile ==
    [recipes |->
        ("Widget" :> Row(DInt(1), None,
                         <<Line("Frame", 1), Line("Gadget", 1)>>, <<>>, None, None, None))
        @@ ("Gadget" :> Row(DInt(2), None,
                            <<Line("Nut", 4), Line("Bolt", 1)>>, <<>>, None, None, None))
        @@ ("Frame" :> Row(DInt(5), None, <<Line("Nut", 10)>>, <<>>, None, None, None))
        @@ ("Nut" :> Row(DInt(4), None, <<Line("Bolt", 2)>>, <<>>, None, None, None)),
     resources |-> ("Bolt" :> DInt(3)) @@ ("Nut" :> DInt(2))
                   @@ ("Gadget" :> DInt(6)) @@ ("Frame" :> DInt(20)),
     ship_type_efficiencies |-> [n \in {} |-> 0],
     config |-> GlobalEfficiencyRow]

Files == {FreshFile, ScenarioFile, LegacyFile, DiamondFile}

\* the recipes the users submit: <<name, output_quantity, components, ship_type>>
Component(resource_name, quantity, unit_price) ==
    RecipeComponent(resource_name, DInt(quantity), DInt(unit_price))

\* a price of 20 significant digits: 3.0000000000000000001
FinePrice == Mk(1, <<3>> \o Zeros(18) \o <<1>>, -19)

Submissions ==
    { <<"Gadget", 2, <<RecipeComponent("Bolt", DInt(4), FinePrice)>>, None>>,
      <<"Widget", 1, <<Component("Gadget", 1, 6), Component("Bolt", 2, 3)>>, Some(" Frigate ")>>,
      <<"Gadget", 2, <<Component("Bolt", 4, 3)>>, None>>,
      <<"Gadget", 3, <<Component("Bolt", 1, 7), Component("Nut", 1, 11)>>, Some("  ")>>,
      <<"Gadget", 1, <<Component("Widget", 1, 12), Component("Bolt", 1, 3)>>, None>>,
      <<"Gadget", 0, <<Component("Bolt", 4, 3)>>, None>>,
      <<"Gadget", 0, <<Component("Widget", 1, 12)>>, None>>,
      <<"Frame", 5, <<Component("Bolt", 25, 4)>>, None>> }

DeletedNames == {"Gadget", "Frame", "Nut"}

ShipTypeSettings == { <<" Frigate ", 50>>, <<"Frigate", 0>>, <<"  ", 50>> }

GlobalSettings == {50, -10}

\* the recipes costed and the efficiency arguments given
CostedNames == {"Widget", "Gadget", "Frame", "Bolt"}
EfficiencyArguments == {None, Some(DInt(100)), Some(DInt(50)), Some(DInt(0))}

\* write operations done in one run of the model
MaxWrites == 1

Init ==
    /\ \E file \in Files :
          /\ recipes = file.recipes
          /\ resources = file.resources
          /\ ship_type_efficiencies = file.ship_type_efficiencies
          /\ config = file.config
    /\ call = [op |-> "connect", name |-> ""]
    /\ result = Returned("None")
    /\ writes = 0
    /\ tasks = <<>>
    /\ lock = None

Written == writes < MaxWrites /\ writes' = writes + 1 /\ UNCHANGED <<tasks, lock>>

\* the submissions made as temporary recipes too
TemporarySubmissions == {s \in Submissions : s[2] = 3}

AddRecipe ==
    \E s \in Submissions, is_temporary \in BOOLEAN :
        /\ is_temporary => s \in TemporarySubmissions
        /\ add_recipe(s[1], DInt(s[2]), s[3], is_temporary, s[4])
        /\ Written

DeleteRecipe ==
    \E name \in DeletedNames : delete_recipe(name) /\ Written

SetShipTypeEfficiency ==
    \E s \in ShipTypeSettings : set_ship_type_efficiency(s[1], DInt(s[2])) /\ Written

DeleteShipTypeEfficiency ==
    delete_ship_type_efficiency("Frigate") /\ Written

SetGlobalEfficiency ==
    \E e \in GlobalSettings : set_global_efficiency(DInt(e)) /\ Written

SetConfigValue ==
    set_config_value("global_efficiency", [text |-> "other"]) /\ Written

PopConfigValue ==
    pop_config_value("global_efficiency") /\ Written

Calculate ==
    \E recipe_name \in CostedNames, efficiency \in EfficiencyArguments :
        CalculateRecipeCost(recipe_name, efficiency)

Next ==
    \/ AddRecipe
    \/ DeleteRecipe
    \/ SetShipTypeEfficiency
    \/ DeleteShipTypeEfficiency
    \/ SetGlobalEfficiency
    \/ SetConfigValue
    \/ PopConfigValue
    \/ Calculate

Spec == Init /\ [][Next]_vars

----------------------------------------------------------------------------
(* The same, for recipes with blueprints and one-off costs.                *)

\* a file written by other hands than the bot's: the recipes of Scenario A,
\* Gadget with a blueprint of 3 Bolt and 1 Nut (never priced) and one-off
\* costs, Widget with a blueprint of 2 Gadget and a creation cost
BlueprintFile ==
    [recipes |->
        ("Widget" :> Row(DInt(1), Some("Frigate"),
                         <<Line("Gadget", 1), Line("Bolt", 2)>>,
                         <<Line("Gadget", 2)>>, None, Some(DInt(9)), None))
        @@ ("Gadget" :> Row(DInt(2), None, <<Line("Bolt", 4)>>,
                            <<Line("Nut", 1), Line("Bolt", 3)>>,
                            Some(DInt(50)), Some(DInt(5)), None)),
     resources |-> ("Bolt" :> DInt(3)) @@ ("Gadget" :> DInt(6)),
     ship_type_efficiencies |-> ("Frigate" :> DInt(50)),
     config |-> GlobalEfficiencyRow]

BlueprintFiles == {ScenarioFile, LegacyFile, BlueprintFile}

\* the blueprints the users submit: <<name, components>>
BlueprintSubmissions ==
    { <<"Widget", <<Component("Gadget", 1, 6), Component("Bolt", 3, 5)>>>>,
      <<"Gadget", <<Component("Nut", 2, 11)>>>>,
      <<"Gadget", <<Component("Widget", 1, 12)>>>>,
      <<"Gadget", <<Component("Bolt", 1, 3), Component("Gadget", 1, 6)>>>>,
      <<"Gadget", <<Component("Bolt", 1, 4), Component("Bolt", 2, 5)>>>>,
      <<"Frame", <<>>>> }

\* the one-off costs the users set: <<name, cost>>
CostSettings == { <<"Widget", Some(DInt(40))>>, <<"Gadget", None>>, <<"Frame", Some(DInt(1))>> }

InitBlueprint ==
    /\ \E file \in BlueprintFiles :
          /\ recipes = file.recipes
          /\ resources = file.resources
          /\ ship_type_efficiencies = file.ship_type_efficiencies
          /\ config = file.config
    /\ call = [op |-> "connect", name |-> ""]
    /\ result = Returned("None")
    /\ writes = 0
    /\ tasks = <<>>
    /\ lock = None

SetRecipeTemporary ==
    set_recipe_temporary("Widget", TRUE) /\ Written

SetRecipeBlueprintCost ==
    \E s \in CostSettings : set_recipe_blueprint_cost(s[1], s[2]) /\ Written

SetRecipeBlueprintCreationCost ==
    \E s \in CostSettings : set_recipe_blueprint_creation_cost(s[1], s[2]) /\ Written

SetRecipeCreationCost ==
    \E s \in CostSettings : set_recipe_creation_cost(s[1], s[2]) /\ Written

SetRecipeBlueprintComponents ==
    \E s \in BlueprintSubmissions : set_recipe_blueprint_components(s[1], s[2]) /\ Written

NextBlueprint ==
    \/ AddRecipe
    \/ DeleteRecipe
    \/ SetRecipeTemporary
    \/ SetRecipeBlueprintCost
    \/ SetRecipeBlueprintCreationCost
    \/ SetRecipeCreationCost
    \/ SetRecipeBlueprintComponents
    \/ Calculate

SpecBlueprint == InitBlueprint /\ [][NextBlueprint]_vars

----------------------------------------------------------------------------
(* calculate_recipe_cost step by step.  A call runs from one await of a    *)
(* read of the store to the next; between two awaits the event loop may    *)
(* run the other calls.  The store is not written meanwhile.               *)

\* an activation of recipe_cost, its loop at component i
Activation(name, components, output_quantity, quantity_multiplier) ==
    [name |-> name, components |-> components, i |-> 1,
     total |-> DZero, breakdown |-> EmptyBreakdown,
     output_quantity |-> output_quantity,
     quantity_multiplier |-> quantity_multiplier]

\* a call of calculate_recipe_cost about to await its first get_recipe:
\* stack holds the activations of recipe_cost, the innermost last; visiting
\* is the set made for the walk; depth is the longest stack so far
Coroutine(recipe_name, efficiency) ==
    [recipe_name |-> recipe_name, efficiency |-> efficiency,
     awaiting |-> "get_recipe",
     base_recipe |-> None, resolved |-> None, walk |-> None,
     stack |-> <<>>, visiting |-> {}, log |-> <<>>, depth |-> 0,
     outcome |-> None]

\* the innermost activation of a call, and the resource its loop is at
Top(task) == task.stack[Len(task.stack)]
Current(task) == Top(task).components[Top(task).i]

\* the log of the walk of the components, once that walk has returned
WalkLog(task) == IF task.walk = None THEN <<>> ELSE task.walk[1].log

\* calculate_recipe_cost returns, or an exception leaves it
Finished(ts, id, outcome) ==
    [ts EXCEPT ![id].awaiting = "done", ![id].stack = <<>>,
               ![id].outcome = Some(outcome)]

\* nothing in calculate_recipe_cost catches an exception
Thrown(ts, id, error) ==
    Finished(ts, id, Raise(error, WalkLog(ts[id]) \o ts[id].log))

\* recipe_cost is entered
Entered(ts, id, activation) ==
    [ts EXCEPT ![id].stack = Append(@, activation),
               ![id].depth = IF Len(ts[id].stack) + 1 > @
                             THEN Len(ts[id].stack) + 1 ELSE @]

\* the activation after the turn of its loop that accumulated acc
Looped(activation, acc) ==
    [activation EXCEPT !.i = @ + 1, !.total = acc.cost, !.breakdown = acc.breakdown]

\* resource_cost hands rc to the loop of the innermost activation
Resumed(ts, id, rc) ==
    IF rc.error # None
    THEN Thrown([ts EXCEPT ![id].log = @ \o rc.log], id, rc.error[1])
    ELSE [ts EXCEPT ![id].log = @ \o rc.log,
                    ![id].stack[Len(ts[id].stack)] =
                        Looped(@, Accumulate(Walk(None, @.total, @.breakdown, <<>>),
                                             DMul(Current(ts[id]).quantity,
                                                  @.quantity_multiplier),
                                             rc))]

\* the nested recipe_cost returns to resource_cost: the name leaves visiting,
\* then the output quantity is checked
NestedReturned(ts, id) ==
    Resumed([ts EXCEPT ![id].stack = SubSeq(@, 1, Len(@) - 1),
                       ![id].visiting = @ \ {Top(ts[id]).name}],
            id,
            NestedUnitCost(Top(ts[id]).name, Top(ts[id]).output_quantity,
                           Walk(None, Top(ts[id]).total, Top(ts[id]).breakdown, <<>>),
                           <<>>))

\* a walk that keeps no record of the recipes it is expanding
visiting_forgotten(ts, id) == {}

\* one visiting set kept for all the calls in flight
visiting_shared(ts, id) == UNION {ts[j].visiting : j \in DOMAIN ts}

\* the visiting set resource_cost of call id tests: the set its own call made
visiting_of(ts, id) == ts[id].visiting

RECURSIVE Advance(_, _)

\* the walk of the blueprint components is entered with a set of its own
BlueprintEntered(ts, id, walk) ==
    Advance(Entered([ts EXCEPT ![id].walk = Some(walk), ![id].log = <<>>,
                               ![id].stack = <<>>,
                               ![id].visiting = {ts[id].recipe_name}],
                    id,
                    Activation(ts[id].recipe_name,
                               ts[id].base_recipe[1].blueprint_components,
                               DInt(1), DInt(1))),
            id)

\* the outermost recipe_cost returns walk to calculate_recipe_cost
WalkReturned(ts, id, walk) ==
    IF ts[id].walk # None
    THEN Finished(ts, id, CostAfterBlueprintWalk(ts[id].base_recipe[1], ts[id].resolved[1],
                                                 ts[id].walk[1], walk))
    ELSE IF ts[id].base_recipe[1].output_quantity.sign = 0
    THEN Thrown(ts, id, IF walk.cost.sign = 0 THEN DivisionUndefined ELSE DivisionByZero)
    ELSE IF ts[id].base_recipe[1].blueprint_components = <<>>
    THEN Finished(ts, id, CostAfterBlueprintWalk(ts[id].base_recipe[1], ts[id].resolved[1],
                                                 walk, Walk(None, DZero, EmptyBreakdown, <<>>)))
    ELSE BlueprintEntered(ts, id, walk)

\* the call runs on unless it is over (ts is worked out once, then used)
Continued(ts, id) ==
    CHOOSE after \in {IF t[id].awaiting = "done" THEN t ELSE Advance(t, id) : t \in {ts}} : TRUE

\* the call runs without awaiting: up to the get_recipe of the next
\* component, or to the end of calculate_recipe_cost
Advance(ts, id) ==
    IF Top(ts[id]).i <= Len(Top(ts[id]).components)
    THEN IF Current(ts[id]).resource_name \in visiting_of(ts, id)
         THEN Thrown(ts, id, CircularRecipeReferenceError(Current(ts[id]).resource_name))
         ELSE [ts EXCEPT ![id].awaiting = "get_nested_recipe"]
    ELSE IF Len(ts[id].stack) > 1
    THEN Continued(NestedReturned(ts, id), id)
    ELSE WalkReturned(ts, id, Walk(None, Top(ts[id]).total, Top(ts[id]).breakdown,
                                   ts[id].log))

\* the efficiency is resolved: it is checked and the components are walked
Started(ts, id, resolved) ==
    IF DLe0(resolved.efficiency) THEN Thrown(ts, id, InvalidEfficiency)
    ELSE Advance(Entered([ts EXCEPT ![id].resolved = Some(resolved),
                                    ![id].visiting = {ts[id].recipe_name}],
                         id,
                         Activation(ts[id].recipe_name,
                                    ts[id].base_recipe[1].components,
                                    ts[id].base_recipe[1].output_quantity,
                                    DDiv(resolved.efficiency, DInt(100)))),
                 id)

\* base_recipe = await self.get_recipe(recipe_name)
BaseRecipeGot(ts, id, base_recipe) ==
    IF base_recipe = None THEN Thrown(ts, id, RecipeNotFoundError(ts[id].recipe_name))
    ELSE IF ts[id].efficiency # None
    THEN Started([ts EXCEPT ![id].base_recipe = base_recipe], id,
                 [efficiency |-> ts[id].efficiency[1], source |-> "custom"])
    ELSE [ts EXCEPT ![id].base_recipe = base_recipe,
                    ![id].awaiting =
                        IF base_recipe[1].ship_type # None /\ base_recipe[1].ship_type[1] # ""
                        THEN "get_ship_type_efficiency" ELSE "get_global_efficiency"]

\* type_efficiency = await self.get_ship_type_efficiency(ship_type)
ShipTypeEfficiencyGot(ts, id, type_efficiency) ==
    IF type_efficiency # None
    THEN Started(ts, id, [efficiency |-> type_efficiency[1], source |-> "ship_type"])
    ELSE [ts EXCEPT ![id].awaiting = "get_global_efficiency"]

\* efficiency = await self.get_global_efficiency()
GlobalEfficiencyGot(ts, id, efficiency) ==
    Started(ts, id, [efficiency |-> efficiency, source |-> "global"])

\* nested_recipe = await self.get_recipe(resource_name)
NestedRecipeGot(ts, id, resource_name, nested_recipe) ==
    IF nested_recipe = None
    THEN [ts EXCEPT ![id].awaiting = "get_resource_unit_price",
                    ![id].log = Append(@, Event("get_recipe", resource_name,
                                                ts[id].visiting))]
    ELSE Advance(Entered([ts EXCEPT ![id].visiting = @ \cup {resource_name},
                                    ![id].log = @ \o <<Event("get_recipe", resource_name,
                                                             ts[id].visiting),
                                                       Event("expand", resource_name,
                                                             ts[id].visiting)>>],
                         id,
                         Activation(resource_name, nested_recipe[1].components,
                                    nested_recipe[1].output_quantity,
                                    Top(ts[id]).quantity_multiplier)),
                 id)

\* price = await self.get_resource_unit_price(resource_name)
PriceGot(ts, id, resource_name, price) ==
    Continued(Resumed(ts, id,
                      TerminalCost(resource_name, price,
                                   <<Event("get_price", resource_name, ts[id].visiting)>>)),
              id)

\* the store a recipe has been added to
Stored(file, s) ==
    [file EXCEPT !.recipes = RecipesAfterAdd(@, s[1], DInt(s[2]), s[3], FALSE, s[4]),
                 !.resources = UpsertPrices(@, s[3], 1)]

\* the stores the calls run on: with three levels and an unpriced name, with
\* blueprints, with a cycle between Widget and Gadget, with a Gadget of
\* output quantity 0
CostedStores ==
    { LegacyFile, BlueprintFile,
      Stored(ScenarioFile,
             <<"Gadget", 1, <<Component("Widget", 1, 12), Component("Bolt", 1, 3)>>, None>>),
      Stored(ScenarioFile, <<"Gadget", 0, <<Component("Bolt", 4, 3)>>, None>>),
      Stored(FreshFile, <<"Gadget", 0, <<>>, None>>) }

\* the calls made: <<recipe_name, efficiency>>
CallArguments ==
    { <<"Widget", None>>, <<"Gadget", Some(DInt(50))>>, <<"Gadget", Some(DInt(0))>> }

\* calls in flight at once
MaxCalls == 2

InitConcurrent ==
    /\ \E store \in CostedStores :
          /\ recipes = store.recipes
          /\ resources = store.resources
          /\ ship_type_efficiencies = store.ship_type_efficiencies
          /\ config = store.config
    /\ call = [op |-> "connect", name |-> ""]
    /\ result = Returned("None")
    /\ writes = 0
    /\ tasks = <<>>
    /\ lock = None

StoreUnchanged ==
    UNCHANGED <<recipes, resources, ship_type_efficiencies, config, call, result, writes, lock>>

Awaiting(id, read) == id \in DOMAIN tasks /\ tasks[id].awaiting = read

\* a caller calls calculate_recipe_cost
Call ==
    /\ Len(tasks) < MaxCalls
    /\ \E a \in CallArguments : tasks' = Append(tasks, Coroutine(a[1], a[2]))
    /\ StoreUnchanged

\* the event loop resumes call id, whose read of the store has returned
GetRecipeReturns(id) ==
    /\ Awaiting(id, "get_recipe")
    /\ tasks' = BaseRecipeGot(tasks, id, get_recipe(DB, tasks[id].recipe_name))
    /\ StoreUnchanged

GetShipTypeEfficiencyReturns(id) ==
    /\ Awaiting(id, "get_ship_type_efficiency")
    /\ tasks' = ShipTypeEfficiencyGot(tasks, id,
                    get_ship_type_efficiency(DB, tasks[id].base_recipe[1].ship_type[1]))
    /\ StoreUnchanged

GetGlobalEfficiencyReturns(id) ==
    /\ Awaiting(id, "get_global_efficiency")
    /\ tasks' = GlobalEfficiencyGot(tasks, id, get_global_efficiency(DB))
    /\ StoreUnchanged

GetNestedRecipeReturns(id) ==
    /\ Awaiting(id, "get_nested_recipe")
    /\ tasks' = NestedRecipeGot(tasks, id, Current(tasks[id]).resource_name,
                                get_recipe(DB, Current(tasks[id]).resource_name))
    /\ StoreUnchanged

GetResourceUnitPriceReturns(id) ==
    /\ Awaiting(id, "get_resource_unit_price")
    /\ tasks' = PriceGot(tasks, id, Current(tasks[id]).resource_name,
                         get_resource_unit_price(DB, Current(tasks[id]).resource_name))
    /\ StoreUnchanged

NextConcurrent ==
    \/ Call
    \/ \E id \in 1..MaxCalls : GetRecipeReturns(id)
    \/ \E id \in 1..MaxCalls : GetShipTypeEfficiencyReturns(id)
    \/ \E id \in 1..MaxCalls : GetGlobalEfficiencyReturns(id)
    \/ \E id \in 1..MaxCalls : GetNestedRecipeReturns(id)
    \/ \E id \in 1..MaxCalls : GetResourceUnitPriceReturns(id)

SpecConcurrent == InitConcurrent /\ [][NextConcurrent]_vars

\* call id is resumed at its await of read: the step that changes tasks[id]
Resumes(id, read) == Awaiting(id, read) /\ tasks'[id] # tasks[id]

\* weak fairness of that step, written out: the step is enabled exactly
\* when call id awaits read.  (ENABLED of a step that does
\* Decimal arithmetic is beyond what TLC evaluates in reasonable time.)
Scheduled(id, read) == []<>(~Awaiting(id, read)) \/ []<><<Resumes(id, read)>>_vars

\* the event loop runs every call that is ready: a read of the store returns
\* and the call awaiting it is resumed
SpecScheduled ==
    /\ SpecConcurrent
    /\ \A id \in 1..MaxCalls :
          /\ WF_vars(GetNestedRecipeReturns(id))
          /\ Scheduled(id, "get_recipe")
          /\ Scheduled(id, "get_ship_type_efficiency")
          /\ Scheduled(id, "get_global_efficiency")
          /\ Scheduled(id, "get_resource_unit_price")

----------------------------------------------------------------------------
(* What the properties below read: the store, the last call and its result. *)

\* the last operation was calculate_recipe_cost; it returned; it raised
Costed == call.op = "calculate_recipe_cost"
Succeeded == Costed /\ result.raised = None
Failed == Costed /\ result.raised # None

\* the names the components of stored recipe n consume
ComponentNames(n) ==
    {recipes[n].components[i].resource_name : i \in 1..Len(recipes[n].components)}

\* S and the names the recipes of S consume
Consumed(S) == S \cup UNION {ComponentNames(n) : n \in S \cap DOMAIN recipes}

RECURSIVE Closure(_)
Closure(S) == IF Consumed(S) = S THEN S ELSE Closure(Consumed(S))

\* every name on some path of components from stored recipe n
Reachable(n) == Closure(ComponentNames(n))

\* stored recipe n is a component, at some depth, of one of its components
Cyclic(n) == n \in Reachable(n)

\* no recipe met when walking recipe n leads back to itself
Acyclic(n) == \A r \in ({n} \cup Reachable(n)) \cap DOMAIN recipes : ~Cyclic(r)

\* the resources the walk of recipe n can meet that are no recipe and have no price
Missing(n) == {r \in Reachable(n) : r \notin DOMAIN recipes /\ r \notin DOMAIN resources}

\* the sub-recipes the walk of recipe n can meet whose output quantity is <= 0
Invalid(n) == {r \in Reachable(n) \cap DOMAIN recipes : DLe0(recipes[r].output_quantity)}

\* the three tiers of the efficiency for the last call, from the tables
StoredGlobal ==
    IF "global_efficiency" \in DOMAIN config /\ config["global_efficiency"].text = "decimal"
    THEN config["global_efficiency"].value
    ELSE DInt(100)

TypeStored ==
    /\ recipes[call.name].ship_type # None
    /\ recipes[call.name].ship_type[1] \in DOMAIN ship_type_efficiencies

Tier(type_tag) ==
    IF call.efficiency # None THEN "custom"
    ELSE IF TypeStored THEN type_tag
    ELSE "global"

TierValue ==
    IF call.efficiency # None THEN call.efficiency[1]
    ELSE IF TypeStored THEN ship_type_efficiencies[recipes[call.name].ship_type[1]]
    ELSE StoredGlobal

\* the last call costed a stored recipe, at an efficiency > 0
CostedRecipe == Costed /\ call.name \in DOMAIN recipes
Walked == CostedRecipe /\ DGt0(TierValue)

\* the store holds the recipes of Scenario A: Widget (output 1) of 2 Bolt and
\* 1 Gadget, Gadget (output 2) of 4 Bolt, Bolt priced 3
ScenarioStore ==
    /\ recipes = ScenarioFile.recipes
    /\ "Bolt" \in DOMAIN resources
    /\ resources["Bolt"] = DInt(3)

\* what the last call would have returned for recipe name at the efficiency
\* the result reports
SubResult(name) == calculate_recipe_cost(DB, name, Some(result.efficiency))

\* the components of the recipe costed, as get_recipe lists them
TargetComponents == get_recipe(DB, call.name)[1].components

SubRecipes == {n \in ComponentNames(call.name) : n \in DOMAIN recipes}

\* the entry of base resource n in a list of breakdown entries, if any
EntryOf(entries, n) ==
    IF \E i \in 1..Len(entries) : entries[i].resource_name = n
    THEN Some(entries[CHOOSE i \in 1..Len(entries) : entries[i].resource_name = n])
    ELSE None

\* the cost of one unit of a component: of a sub-recipe of output q and
\* one-run cost c it is c / q, of a resource its price
UnitCostOf(name, sub) ==
    IF name \in DOMAIN recipes THEN DDiv(sub.run_cost, sub.output_quantity)
    ELSE resources[name]

\* the quantity of base resource n in one unit of a component: of a
\* sub-recipe of output q, its own breakdown quantity divided by q
UnitQuantityOf(name, sub, n) ==
    IF name \in DOMAIN recipes
    THEN (IF EntryOf(sub.components, n) = None THEN None
          ELSE Some(DDiv(EntryOf(sub.components, n)[1].quantity, sub.output_quantity)))
    ELSE IF name = n THEN Some(DInt(1)) ELSE None

\* the run cost the first i components add up to at multiplier m
RECURSIVE ChargedCost(_, _, _)
ChargedCost(components, i, m) ==
    IF i = 0 THEN DZero
    ELSE DAdd(ChargedCost(components, i - 1, m),
              DMul(DMul(components[i].quantity, m),
                   UnitCostOf(components[i].resource_name,
                              SubResult(components[i].resource_name))))

AddQuantity(sum, component_quantity, unit_quantity) ==
    IF unit_quantity = None THEN sum
    ELSE IF sum = None THEN Some(DMul(unit_quantity[1], component_quantity))
    ELSE Some(DAdd(sum[1], DMul(unit_quantity[1], component_quantity)))

\* the quantity of base resource n the first i components add up to
RECURSIVE MergedQuantity(_, _, _, _)
MergedQuantity(components, i, m, n) ==
    IF i = 0 THEN None
    ELSE AddQuantity(MergedQuantity(components, i - 1, m, n),
                     DMul(components[i].quantity, m),
                     UnitQuantityOf(components[i].resource_name,
                                    SubResult(components[i].resource_name), n))

\* the components that bring base resource n: directly, or through a sub-recipe
PathsTo(n) ==
    {i \in 1..Len(TargetComponents) :
        UnitQuantityOf(TargetComponents[i].resource_name,
                       SubResult(TargetComponents[i].resource_name), n) # None}

\* the sum of total_cost over a list of breakdown entries
RECURSIVE SumTotals(_, _)
SumTotals(entries, i) ==
    IF i = 0 THEN DZero ELSE DAdd(SumTotals(entries, i - 1), entries[i].total_cost)

----------------------------------------------------------------------------
(* The properties.                                                         *)

\* C1 (as stated): on every store, a call that returns at efficiency e is
\* matched by the call at e/2 returning exactly half its run_cost; and in
\* Scenario B (the store of Scenario A, Widget costed at efficiency 50) the
\* run cost is 6.
C1_ScaleInvariance ==
    /\ (Succeeded /\ call.efficiency # None) =>
          /\ calculate_recipe_cost(DB, call.name,
                 Some(DDiv(call.efficiency[1], DInt(2)))).raised = None
          /\ calculate_recipe_cost(DB, call.name,
                 Some(DDiv(call.efficiency[1], DInt(2)))).run_cost
             = DMul(DLit(5, 1), result.run_cost)
    /\ (Costed /\ ScenarioStore /\ call.name = "Widget" /\ call.efficiency = Some(DInt(50))) =>
          /\ result.raised = None
          /\ result.run_cost = DInt(6)

\* C2 (as stated): in every result returned, the total_cost of the entries
\* of the components breakdown add up to run_cost.
C2_BreakdownConservation ==
    Succeeded => SumTotals(result.components, Len(result.components)) = result.run_cost

\* C3 (as stated): costing a recipe that is, at some depth, a component of
\* one of its own components always fails with the circular-reference
\* error; and no recipe is expanded while its name is in the visiting set.
C3_CycleAlwaysReported ==
    /\ (CostedRecipe /\ Cyclic(call.name)) =>
          /\ result.raised # None
          /\ result.raised[1].type = "CircularRecipeReferenceError"
    /\ Costed => \A i \in 1..Len(result.log) :
          result.log[i].op = "expand" => result.log[i].name \notin result.log[i].visiting

\* C3 (amended): costing such a recipe at a resolved efficiency > 0 returns
\* no result; the error is the circular-reference error, naming a recipe of
\* the walk, when moreover every resource the walk can meet is priced and
\* every recipe it can meet has a positive output quantity; and no recipe is
\* ever expanded while its name is in the visiting set.
C3_CycleReported ==
    /\ (Walked /\ Cyclic(call.name)) =>
          /\ result.raised # None
          /\ (Missing(call.name) = {} /\ Invalid(call.name) = {}) =>
                /\ result.raised[1].type = "CircularRecipeReferenceError"
                /\ result.raised[1].name \in Reachable(call.name) \cap DOMAIN recipes
    /\ Costed => \A i \in 1..Len(result.log) :
          result.log[i].op = "expand" => result.log[i].name \notin result.log[i].visiting

\* a recipe with a sibling component beside the one closing the cycle fails
\* with the circular-reference error after the sibling was priced
C3_Witness ==
    /\ Walked /\ Cyclic(call.name)
    /\ Missing(call.name) = {} /\ Invalid(call.name) = {}
    /\ Len(recipes[call.name].components) >= 2
    /\ result.raised # None
    /\ result.raised[1].type = "CircularRecipeReferenceError"
    /\ \E i \in 1..Len(result.log) : result.log[i].op = "get_price"

\* C4 (as stated): whenever the walk of the costed recipe can meet a
\* resource that is no recipe and has no price, the call fails with the
\* price-not-found error naming that resource.
C4_MissingPriceAlwaysReported ==
    CostedRecipe =>
        \A r \in Missing(call.name) : result.raised = Some(ResourcePriceNotFoundError(r))

\* C4 (amended): at a resolved efficiency > 0 such a call returns no result;
\* the error is the price-not-found error, naming one of the unpriced
\* resources, when moreover no recipe of the walk leads back to itself and
\* every sub-recipe it can meet has a positive output quantity.
C4_MissingPriceReported ==
    (Walked /\ Missing(call.name) # {}) =>
        /\ result.raised # None
        /\ (Acyclic(call.name) /\ Invalid(call.name) = {}) =>
              \E r \in Missing(call.name) : result.raised = Some(ResourcePriceNotFoundError(r))

\* the unpriced resource is met three recipes deep
C4_Witness ==
    /\ Walked /\ Acyclic(call.name) /\ Invalid(call.name) = {}
    /\ result.raised = Some(ResourcePriceNotFoundError("Nut"))
    /\ \E i \in 1..Len(result.log) :
          /\ result.log[i].op = "get_price"
          /\ result.log[i].name = "Nut"
          /\ Cardinality(result.log[i].visiting) = 3

\* C5: in every result returned, the run cost charges each component its
\* quantity (times the multiplier) at its unit cost, which for a sub-recipe
\* of output q and own run cost c is c / q; and each breakdown quantity is
\* what the components add up to, a sub-recipe bringing its own breakdown
\* quantities divided by q.
C5_UnitNormalisation ==
    (Succeeded /\ \A n \in SubRecipes : SubResult(n).raised = None) =>
        /\ result.run_cost =
              ChargedCost(TargetComponents, Len(TargetComponents),
                          DDiv(result.efficiency, DInt(100)))
        /\ \A n \in Names :
              EntryOf(result.components, n) # None =>
                  Some(EntryOf(result.components, n)[1].quantity) =
                      MergedQuantity(TargetComponents, Len(TargetComponents),
                                     DDiv(result.efficiency, DInt(100)), n)

\* a sub-recipe of output 5 and run cost 100 is charged at 20 the unit and
\* brings a fifth of its 25 Bolt
C5_Witness ==
    /\ Succeeded /\ call.name = "Gadget" /\ "Frame" \in SubRecipes
    /\ SubResult("Frame").raised = None
    /\ SubResult("Frame").output_quantity = DInt(5)
    /\ SubResult("Frame").run_cost = DInt(100)
    /\ UnitCostOf("Frame", SubResult("Frame")) = DInt(20)
    /\ UnitQuantityOf("Frame", SubResult("Frame"), "Bolt") = Some(DInt(5))
    /\ result.run_cost = DInt(36)

\* C6: a result lists every base resource once, with the quantity all the
\* components that bring it add up to; in Scenario A, at efficiency 100,
\* Widget costs 12 and its breakdown is the one entry Bolt, quantity 4,
\* total cost 12.
C6_BranchMerging ==
    /\ Succeeded =>
          /\ \A i, j \in 1..Len(result.components) :
                result.components[i].resource_name = result.components[j].resource_name
                    => i = j
          /\ \A n \in Names :
                (Cardinality(PathsTo(n)) >= 2
                 /\ \A r \in SubRecipes : SubResult(r).raised = None) =>
                    /\ EntryOf(result.components, n) # None
                    /\ Some(EntryOf(result.components, n)[1].quantity) =
                           MergedQuantity(TargetComponents, Len(TargetComponents),
                                          DDiv(result.efficiency, DInt(100)), n)
    /\ (CostedRecipe /\ ScenarioStore /\ call.name = "Widget" /\ TierValue = DInt(100)) =>
          /\ result.raised = None
          /\ result.run_cost = DInt(12)
          /\ result.components =
                 <<[resource_name |-> "Bolt", quantity |-> DInt(4),
                    unit_cost |-> DInt(3), total_cost |-> DInt(12)]>>

\* Scenario A has been costed: Bolt came by two paths
C6_Witness ==
    /\ CostedRecipe /\ ScenarioStore /\ call.name = "Widget" /\ TierValue = DInt(100)
    /\ Succeeded
    /\ Cardinality(PathsTo("Bolt")) = 2
    /\ result.run_cost = DInt(12)

\* C7 (as stated): a result reports the efficiency of the first tier that
\* has one (the argument, the recipe's ship type, the global setting or 100)
\* and names that tier "custom", "category" or "global".
C7_TierTaggedCategory ==
    Succeeded =>
        /\ result.efficiency = TierValue
        /\ result.efficiency_source = Tier("category")

\* C7 (amended): the same, the tag of the ship-type tier being "ship_type".
C7_TierTagged ==
    Succeeded =>
        /\ result.efficiency = TierValue
        /\ result.efficiency_source = Tier("ship_type")

\* no argument was given and the ship type of the recipe has an efficiency
C7_Witness ==
    /\ Succeeded /\ call.efficiency = None /\ TypeStored
    /\ result.efficiency_source = "ship_type"
    /\ result.efficiency # StoredGlobal

\* C8: costing a stored recipe at a resolved efficiency <= 0 raises the
\* invalid-efficiency error before any component is looked up.
C8_InvalidEfficiency ==
    (CostedRecipe /\ DLe0(TierValue)) => result = Raise(InvalidEfficiency, <<>>)

\* the efficiency <= 0 is the one stored for the recipe's ship type
C8_Witness ==
    /\ CostedRecipe /\ call.efficiency = None /\ TypeStored /\ DLe0(TierValue)
    /\ recipes[call.name].components # <<>>
    /\ result.raised = Some(InvalidEfficiency)

\* C9: costing a name under which no recipe is stored raises
\* RecipeNotFoundError for that name, whatever the efficiency argument and
\* whether or not the name has a price.
C9_RecipeNotFound ==
    (Costed /\ call.name \notin DOMAIN recipes) =>
        result = Raise(RecipeNotFoundError(call.name), <<>>)

\* the name has a price and the efficiency argument is 0
C9_Witness ==
    /\ Costed /\ call.name \notin DOMAIN recipes
    /\ call.name \in DOMAIN resources
    /\ call.efficiency = Some(DInt(0))
    /\ result.raised = Some(RecipeNotFoundError(call.name))

\* C10 (as stated): whenever the walk of the costed recipe can meet a
\* sub-recipe whose output quantity is <= 0, the call fails with the
\* invalid-recipe error, and no unit cost is derived from that sub-recipe.
C10_InvalidSubRecipeAlwaysReported ==
    (CostedRecipe /\ Invalid(call.name) # {}) =>
        /\ \E r \in Invalid(call.name) : result.raised = Some(InvalidRecipe(r))
        /\ \A i \in 1..Len(result.log) :
              result.log[i].op = "unit_cost" => result.log[i].name \notin Invalid(call.name)

\* C10 (amended): at a resolved efficiency > 0 such a call returns no
\* result; the error is the invalid-recipe error, naming one of those
\* sub-recipes, when moreover no recipe of the walk leads back to itself and
\* every resource it can meet is priced; and in no case is a unit cost
\* derived from such a sub-recipe.
C10_InvalidSubRecipeReported ==
    /\ (Walked /\ Invalid(call.name) # {}) =>
          /\ result.raised # None
          /\ (Acyclic(call.name) /\ Missing(call.name) = {}) =>
                \E r \in Invalid(call.name) : result.raised = Some(InvalidRecipe(r))
    /\ CostedRecipe => \A i \in 1..Len(result.log) :
          result.log[i].op = "unit_cost" => result.log[i].name \notin Invalid(call.name)

\* the components of the sub-recipe were priced before its output quantity
\* was found to be 0
C10_Witness ==
    /\ Walked /\ Acyclic(call.name) /\ Missing(call.name) = {}
    /\ \E r \in Invalid(call.name) :
          /\ result.raised = Some(InvalidRecipe(r))
          /\ \E i \in 1..Len(result.log) :
                result.log[i].op = "get_price" /\ r \in result.log[i].visiting

\* the kind of the taxonomy an exception belongs to, as a caller can tell it
\* from the class and the message
Kind(error) ==
    IF error.type = "RecipeNotFoundError" THEN "RecipeNotFound"
    ELSE IF error.type = "ResourcePriceNotFoundError" THEN "ResourcePriceNotFound"
    ELSE IF error.type = "CircularRecipeReferenceError" THEN "CircularReference"
    ELSE IF error = InvalidEfficiency THEN "InvalidEfficiency"
    ELSE IF error.type = "ValueError" /\ error.message = InvalidRecipe("").message
    THEN "InvalidRecipe"
    ELSE "other"

Taxonomy ==
    {"RecipeNotFound", "ResourcePriceNotFound", "CircularReference",
     "InvalidEfficiency", "InvalidRecipe"}

\* C11 (as stated): every call either returns a result or raises an error of
\* one of the five kinds; a target recipe whose own output quantity is <= 0
\* and whose walks succeed is given a result.
C11_ClosedTaxonomy ==
    /\ Failed => Kind(result.raised[1]) \in Taxonomy
    /\ (Walked /\ DLe0(recipes[call.name].output_quantity)
        /\ Acyclic(call.name) /\ Missing(call.name) = {} /\ Invalid(call.name) = {}
        /\ recipes[call.name].blueprint_components = <<>>) => Succeeded

\* the names the blueprint components of stored recipe n consume, and those
\* of them that are no recipe and have no price
BlueprintNames(n) ==
    {recipes[n].blueprint_components[i].resource_name :
        i \in 1..Len(recipes[n].blueprint_components)}

BlueprintMissing(n) ==
    {r \in BlueprintNames(n) : r \notin DOMAIN recipes /\ r \notin DOMAIN resources}

\* the walk of the components of the recipe costed, on its own
ComponentWalk ==
    recipe_cost(DB, get_recipe(DB, call.name)[1], {call.name}, DDiv(TierValue, DInt(100)))

\* the last lookup or expansion a call made
LastEvent == result.log[Len(result.log)]

Expanded(n) == \E i \in 1..Len(result.log) :
                  result.log[i].op = "expand" /\ result.log[i].name = n

\* C12: a call that fails returns nothing but the error, and the error is
\* the one of the lookup that failed, at whatever depth: a price-not-found
\* error names the resource looked up last, which has no price; an
\* invalid-recipe error names a recipe that was expanded and has an output
\* quantity <= 0; a circular-reference error names the target or a recipe
\* under expansion.  A call that returns met no failing lookup.  When the
\* walk of the components succeeds and a blueprint component has no price,
\* the call fails, with the price-not-found error when no blueprint
\* component is a recipe and the output quantity of the target is not 0.
C12_NoPartialResults ==
    /\ Failed =>
          /\ DOMAIN result = {"raised", "log"}
          /\ Kind(result.raised[1]) = "ResourcePriceNotFound" =>
                /\ LastEvent = Event("get_price", result.raised[1].name, LastEvent.visiting)
                /\ result.raised[1].name \notin DOMAIN resources
          /\ Kind(result.raised[1]) = "InvalidRecipe" =>
                /\ Expanded(result.raised[1].name)
                /\ DLe0(recipes[result.raised[1].name].output_quantity)
          /\ Kind(result.raised[1]) = "CircularReference" =>
                result.raised[1].name = call.name \/ Expanded(result.raised[1].name)
    /\ Succeeded =>
          \A i \in 1..Len(result.log) :
              /\ result.log[i].op = "get_price" => result.log[i].name \in DOMAIN resources
              /\ result.log[i].op = "expand" =>
                    /\ result.log[i].name \notin result.log[i].visiting
                    /\ DGt0(recipes[result.log[i].name].output_quantity)
    /\ (Walked /\ ComponentWalk.error = None /\ BlueprintMissing(call.name) # {}) =>
          /\ Failed
          /\ (BlueprintNames(call.name) \cap DOMAIN recipes = {}
              /\ recipes[call.name].output_quantity.sign # 0) =>
                \E r \in BlueprintMissing(call.name) :
                    result.raised = Some(ResourcePriceNotFoundError(r))

\* the components were priced, then a blueprint component had no price
C12_Witness ==
    /\ Walked /\ ComponentWalk.error = None
    /\ ComponentWalk.cost = DInt(12)
    /\ result.raised = Some(ResourcePriceNotFoundError("Nut"))
    /\ "Nut" \in BlueprintMissing(call.name)
    /\ Len(result.log) > Len(ComponentWalk.log)

\* every name on some path of blueprint components and components from
\* stored recipe n
BlueprintReachable(n) == Closure(BlueprintNames(n))

\* neither walk of recipe n can come back to a recipe it is expanding
CycleFree(n) ==
    /\ Acyclic(n)
    /\ n \notin BlueprintReachable(n)
    /\ \A r \in BlueprintReachable(n) \cap DOMAIN recipes : ~Cyclic(r)

\* the number of paths of components from a list of components to name d
RECURSIVE PathsFrom(_, _, _)
PathsOf(n, d) ==
    IF n \in DOMAIN recipes
    THEN PathsFrom(recipes[n].components, Len(recipes[n].components), d)
    ELSE 0

PathsFrom(components, i, d) ==
    IF i = 0 THEN 0
    ELSE PathsFrom(components, i - 1, d)
         + (IF components[i].resource_name = d THEN 1 ELSE 0)
         + PathsOf(components[i].resource_name, d)

\* the number of times a call expanded recipe d
Expansions(d) ==
    Cardinality({i \in 1..Len(result.log) :
        result.log[i].op = "expand" /\ result.log[i].name = d})

\* the store holds the recipes of the diamond: Widget of Frame and Gadget,
\* both of Nut, Nut of Bolt priced 3
DiamondStore ==
    /\ recipes = DiamondFile.recipes
    /\ resources["Bolt"] = DInt(3)

\* C13: when no recipe either walk can meet leads back to itself, a call
\* never fails with the circular-reference error, however many branches
\* reach the same sub-recipe; a call that returns has expanded every
\* recipe once per path that leads to it; and in the diamond (Widget of 1
\* Frame and 1 Gadget, Frame (output 5) of 10 Nut, Gadget (output 2) of 4
\* Nut and 1 Bolt, Nut (output 4) of 2 Bolt, Bolt priced 3) Widget costs 7.5
\* at efficiency 100, which is 2.5 Bolt: 1 through Frame, 1.5 through Gadget.
C13_SharedSubRecipe ==
    /\ (CostedRecipe /\ CycleFree(call.name)) =>
          /\ Failed => Kind(result.raised[1]) # "CircularReference"
          /\ Succeeded =>
                \A d \in DOMAIN recipes :
                    Expansions(d) =
                        PathsOf(call.name, d)
                        + PathsFrom(recipes[call.name].blueprint_components,
                                    Len(recipes[call.name].blueprint_components), d)
    /\ (CostedRecipe /\ DiamondStore /\ call.name = "Widget" /\ TierValue = DInt(100)) =>
          /\ Succeeded
          /\ result.run_cost = DLit(75, 1)
          /\ result.components =
                 <<[resource_name |-> "Bolt", quantity |-> DLit(25, 1),
                    unit_cost |-> DInt(3), total_cost |-> DLit(75, 1)]>>

\* the diamond has been costed: Nut was expanded on both branches
C13_Witness ==
    /\ CostedRecipe /\ DiamondStore /\ call.name = "Widget" /\ TierValue = DInt(100)
    /\ CycleFree("Widget")
    /\ PathsOf("Widget", "Nut") = 2
    /\ Expansions("Nut") = 2
    /\ Succeeded

\* the calls in flight, and those that are over
Calls == DOMAIN tasks
Over(id) == id \in Calls /\ tasks[id].awaiting = "done" /\ tasks[id].outcome # None

\* C14: on a store of N recipes, with or without a cycle, no call has more
\* than N activations of recipe_cost nested at any time, and every call
\* made is over at some later time, with a result or with an error.
C14_TerminationAndDepth ==
    /\ [](\A id \in Calls :
             /\ Len(tasks[id].stack) <= Cardinality(DOMAIN recipes)
             /\ tasks[id].depth <= Cardinality(DOMAIN recipes))
    /\ \A id \in 1..MaxCalls : (id \in Calls) ~> Over(id)

\* a call on the store where Widget and Gadget consume each other is over
\* with the circular-reference error, having nested as many activations as
\* the store has recipes; another on the store of three levels likewise
C14_Witness ==
    \E id \in Calls :
        /\ Over(id)
        /\ tasks[id].outcome[1].raised # None
        /\ tasks[id].outcome[1].raised[1].type = "CircularRecipeReferenceError"
        /\ Cyclic(tasks[id].recipe_name)
        /\ tasks[id].depth = Cardinality(DOMAIN recipes)

\* a stored one-off cost, 0 when it is not set
OrZero(cost) == IF cost = None THEN DZero ELSE cost[1]

\* C15: in every result returned, total_with_additions is run_cost +
\* blueprint_components_cost + blueprint_cost + creation_cost +
\* blueprint_creation_cost, added in this order, a stored cost that is not
\* set counting as 0; and blueprint_components_cost is 0 when the recipe
\* has no blueprint components.
C15_GrandTotal ==
    Succeeded =>
        /\ result.total_with_additions =
              DAdd(DAdd(DAdd(DAdd(result.run_cost, result.blueprint_components_cost),
                             OrZero(recipes[call.name].blueprint_cost)),
                        OrZero(recipes[call.name].creation_cost)),
                   OrZero(recipes[call.name].blueprint_creation_cost))
        /\ recipes[call.name].blueprint_components = <<>> =>
              /\ result.blueprint_components_cost = DZero
              /\ result.blueprint_components = <<>>

\* Widget costed with blueprint components, a blueprint cost and a creation
\* cost, and no blueprint creation cost: 4.5 + 12 + 40 + 9
C15_Witness ==
    /\ Succeeded /\ call.name = "Widget"
    /\ recipes["Widget"].blueprint_cost = Some(DInt(40))
    /\ recipes["Widget"].creation_cost = Some(DInt(9))
    /\ recipes["Widget"].blueprint_creation_cost = None
    /\ result.run_cost = DLit(45, 1)
    /\ result.blueprint_components_cost = DInt(12)
    /\ result.total_with_additions = DLit(655, 1)

\* the store with the output quantity of the recipe costed set to q
WithOutputQuantity(q) ==
    [DB EXCEPT !.recipes[call.name].output_quantity = q]

\* the store with the blueprint components of the recipe costed as its
\* components, and no blueprint components
BlueprintAsComponents ==
    [DB EXCEPT !.recipes[call.name].components = recipes[call.name].blueprint_components,
               !.recipes[call.name].blueprint_components = <<>>]

OtherOutputQuantities == {DInt(1), DInt(7)}

\* C16: on the store of a result returned, every call for the same recipe
\* that returns, whatever its efficiency argument and whatever the output
\* quantity of the recipe, returns the same blueprint_components_cost and
\* the same blueprint breakdown; and they are the run cost and the
\* breakdown the blueprint components have as the components of a recipe
\* costed at efficiency 100, that is at multiplier 1.
C16_BlueprintOneOff ==
    Succeeded =>
        /\ \A e \in EfficiencyArguments :
              \A other \in {calculate_recipe_cost(DB, call.name, e)} :
                  other.raised = None =>
                      /\ other.blueprint_components_cost = result.blueprint_components_cost
                      /\ other.blueprint_components = result.blueprint_components
        /\ \A q \in OtherOutputQuantities :
              \A other \in {calculate_recipe_cost(WithOutputQuantity(q), call.name,
                                                  call.efficiency)} :
                  /\ other.raised = None
                  /\ other.blueprint_components_cost = result.blueprint_components_cost
                  /\ other.blueprint_components = result.blueprint_components
        /\ recipes[call.name].blueprint_components # <<>> =>
              \A other \in {calculate_recipe_cost(BlueprintAsComponents, call.name,
                                                  Some(DInt(100)))} :
                  /\ other.raised = None
                  /\ other.run_cost = result.blueprint_components_cost
                  /\ other.components = result.blueprint_components

\* Widget costed at efficiency 50: its components cost 4.5 instead of 12,
\* its blueprint of 2 Gadget, a recipe, costs 12
C16_Witness ==
    /\ Succeeded /\ call.name = "Widget"
    /\ result.efficiency = DInt(50)
    /\ result.run_cost = DLit(45, 1)
    /\ "Gadget" \in BlueprintNames("Widget") \cap DOMAIN recipes
    /\ result.blueprint_components_cost = DInt(12)
    /\ result.blueprint_components =
           <<[resource_name |-> "Bolt", quantity |-> DInt(4),
              unit_cost |-> DInt(3), total_cost |-> DInt(12)]>>

\* the operations that take components with unit prices
PriceWriters == {"add_recipe", "set_recipe_blueprint_components"}

\* the unit price of the last of the components that names n, if any
Naming(components, n) == {i \in 1..Len(components) : components[i].resource_name = n}

LastPrice(components, n) ==
    IF Naming(components, n) = {} THEN None
    ELSE Some(components[CHOOSE i \in Naming(components, n) :
                             \A j \in Naming(components, n) : j <= i].unit_price)

\* every entry of a breakdown is priced at the price now stored
StoredPrices(entries) ==
    \A i \in 1..Len(entries) :
        /\ entries[i].resource_name \in DOMAIN resources
        /\ entries[i].unit_cost = resources[entries[i].resource_name]

\* a step of add_recipe or set_recipe_blueprint_components that returns
\* stores, for every resource its components name, the unit price of the
\* last component naming it, and leaves every other price as it is; a step
\* of any other operation leaves every price as it is
PricesWritten ==
    IF call'.op \in PriceWriters /\ result'.raised = None
    THEN \A n \in Names :
            IF LastPrice(call'.components, n) = None
            THEN /\ n \in DOMAIN resources' <=> n \in DOMAIN resources
                 /\ n \in DOMAIN resources => resources'[n] = resources[n]
            ELSE /\ n \in DOMAIN resources'
                 /\ resources'[n] = float(LastPrice(call'.components, n)[1])
    ELSE resources' = resources

\* C17: a call that returns prices every entry of both its breakdowns at
\* the price stored for the resource when it is made; and the price stored
\* for a resource is the unit price that the last add_recipe or
\* set_recipe_blueprint_components call naming it gave for it (in its last
\* component naming it), whatever recipe that call was for.
C17_CurrentStoredPrice ==
    /\ [](Succeeded => StoredPrices(result.components)
                        /\ StoredPrices(result.blueprint_components))
    /\ [][PricesWritten]_vars

\* Gadget, stored with Bolt at 3, is costed with Bolt at 5, the price a
\* later call for the blueprint of Widget gave
C17_Witness ==
    /\ Succeeded /\ call.name = "Gadget" /\ writes = 1
    /\ recipes = [ScenarioFile.recipes EXCEPT
                      !["Widget"].blueprint_components =
                          <<Line("Gadget", 1), Line("Bolt", 3)>>]
    /\ ScenarioFile.resources["Bolt"] = DInt(3)
    /\ result.components =
           <<[resource_name |-> "Bolt", quantity |-> DInt(4),
              unit_cost |-> DInt(5), total_cost |-> DInt(20)]>>

\* every lookup of a call found a recipe and expanded it, or found none and
\* asked for the price; nothing was expanded or priced without a lookup
LookedUp(log) ==
    \A i \in 1..Len(log) :
        /\ log[i].op = "get_recipe" =>
              /\ i < Len(log)
              /\ log[i + 1] = Event(IF log[i].name \in DOMAIN recipes
                                    THEN "expand" ELSE "get_price",
                                    log[i].name, log[i].visiting)
        /\ log[i].op \in {"expand", "get_price"} =>
              /\ i > 1
              /\ log[i - 1] = Event("get_recipe", log[i].name, log[i].visiting)

\* a call that returned expanded the components that are recipes, and
\* lists those that are not at their stored price
Classified ==
    \A x \in ComponentNames(call.name) :
        IF x \in DOMAIN recipes
        THEN Expanded(x) /\ EntryOf(result.components, x) = None
        ELSE /\ EntryOf(result.components, x) # None
             /\ EntryOf(result.components, x)[1].unit_cost = resources[x]

\* stored recipe n consumes x, and the call for n at efficiency e returns
Consumes(n, x, e) ==
    /\ n \in DOMAIN recipes /\ n # x
    /\ x \in ComponentNames(n)
    /\ calculate_recipe_cost(DB, n, e).raised = None

ExpandedIn(log, x) == \E i \in 1..Len(log) : log[i].op = "expand" /\ log[i].name = x

\* once add_recipe(x) has returned, every recipe that consumes x is costed
\* through the components of x; once delete_recipe(x) has returned, it is
\* costed at the price stored for x
Reclassified ==
    \A n \in CostedNames, e \in EfficiencyArguments :
        /\ (call.op = "add_recipe" /\ Consumes(n, call.name, e)) =>
              /\ ExpandedIn(calculate_recipe_cost(DB, n, e).log, call.name)
              /\ EntryOf(calculate_recipe_cost(DB, n, e).components, call.name) = None
        /\ (call.op = "delete_recipe" /\ Consumes(n, call.name, e)) =>
              /\ ~ExpandedIn(calculate_recipe_cost(DB, n, e).log, call.name)
              /\ EntryOf(calculate_recipe_cost(DB, n, e).components, call.name) # None
              /\ EntryOf(calculate_recipe_cost(DB, n, e).components,
                         call.name)[1].unit_cost = resources[call.name]

\* C18: in every call each component name is looked up, and is expanded
\* if and only if a recipe of that name is stored, whether or not a price
\* is stored for it too; once add_recipe(x) has returned, the recipes that
\* consume x are costed through the components of x, and once
\* delete_recipe(x) has returned, at the price stored for x.
C18_DynamicClassification ==
    /\ Costed => LookedUp(result.log)
    /\ Succeeded => Classified
    /\ Reclassified

\* Gadget deleted from the diamond: Widget is costed through Frame, a
\* recipe with a stored price, and at the stored price of Gadget
C18_Witness ==
    /\ Succeeded /\ call.name = "Widget" /\ writes = 1
    /\ recipes = [n \in DOMAIN DiamondFile.recipes \ {"Gadget"} |-> DiamondFile.recipes[n]]
    /\ "Frame" \in DOMAIN resources /\ Expanded("Frame")
    /\ ~Expanded("Gadget")
    /\ EntryOf(result.components, "Gadget") =
           Some([resource_name |-> "Gadget", quantity |-> DInt(1),
                 unit_cost |-> DInt(6), total_cost |-> DInt(6)])
    /\ result.run_cost = DInt(9)

\* the resources the walk of stored recipe n meets when nothing fails
Terminals(n) == {r \in Reachable(n) : r \notin DOMAIN recipes}

\* the first resource a call asked the price of
FirstPriced ==
    result.log[CHOOSE i \in 1..Len(result.log) :
                  /\ result.log[i].op = "get_price"
                  /\ \A j \in 1..(i - 1) : result.log[j].op # "get_price"].name

\* C19: the components list of a result has one entry for each resource
\* the walk of the components reached that is no recipe and no other
\* entry, no two entries of one name, the names ascending, and in each
\* entry total_cost = quantity * unit_cost.
C19_BreakdownShape ==
    Succeeded =>
        /\ {result.components[i].resource_name : i \in 1..Len(result.components)}
              = Terminals(call.name)
        /\ Len(result.components) = Cardinality(Terminals(call.name))
        /\ \A i \in 1..Len(result.components) :
              /\ result.components[i].resource_name \notin DOMAIN recipes
              /\ result.components[i].total_cost =
                     DMul(result.components[i].quantity, result.components[i].unit_cost)
              /\ \A j \in 1..Len(result.components) :
                     i < j => NameRank(result.components[i].resource_name)
                              < NameRank(result.components[j].resource_name)

\* the walk priced Nut before Bolt, the list has Bolt before Nut, and a
\* recipe was expanded on the way
C19_Witness ==
    /\ Succeeded
    /\ Len(result.components) = 2
    /\ FirstPriced = "Nut"
    /\ result.components[1].resource_name = "Bolt"
    /\ result.components[2].resource_name = "Nut"
    /\ Expanded("Frame")

\* log begins with the events of prefix
BeginsWith(log, prefix) ==
    Len(prefix) <= Len(log) /\ SubSeq(log, 1, Len(prefix)) = prefix

\* what the call returns or raises when it runs alone on the store
Alone(task) == calculate_recipe_cost(DB, task.recipe_name, task.efficiency)

\* the call is in the middle of its walk of the components
Walking(id) ==
    /\ id \in Calls
    /\ tasks[id].awaiting \in {"get_nested_recipe", "get_resource_unit_price"}

\* C20: however the calls in flight interleave at their awaits on a store
\* that is not written, a call that is over has returned or raised exactly
\* what it returns or raises when run alone, and a call still running has
\* made exactly the lookups, with the visiting sets, that it makes alone.
C20_NoInterference ==
    \A id \in Calls :
        IF tasks[id].awaiting = "done"
        THEN tasks[id].outcome = Some(Alone(tasks[id]))
        ELSE BeginsWith(Alone(tasks[id]).log, WalkLog(tasks[id]) \o tasks[id].log)

\* two calls for Widget are in the middle of their walks at once: the first
\* is walking the components and is inside Gadget, the second has walked
\* them, is walking the blueprint and is about to look Gadget up, which is
\* on the visiting set of the first and not on its own
C20_Witness ==
    /\ Walking(1) /\ Walking(2)
    /\ tasks[1].recipe_name = "Widget" /\ tasks[2].recipe_name = "Widget"
    /\ tasks[1].walk = None
    /\ tasks[1].visiting = {"Widget", "Gadget"}
    /\ tasks[2].walk # None
    /\ tasks[2].awaiting = "get_nested_recipe"
    /\ Current(tasks[2]).resource_name = "Gadget"
    /\ tasks[2].visiting = {"Widget"}

----------------------------------------------------------------------------
(* add_recipe on a name already stored.                                    *)

\* the quantities of the rows naming n, in the order of the rows
QuantitiesOf(rows, n) ==
    LET naming == SelectSeq(rows, LAMBDA row : row.resource_name = n)
    IN  [i \in 1..Len(naming) |-> naming[i].quantity]

\* the quantities given for n, as REAL columns hold them
GivenQuantities(components, n) ==
    LET naming == SelectSeq(components, LAMBDA c : c.resource_name = n)
    IN  [i \in 1..Len(naming) |-> float(naming[i].quantity)]

\* a step of add_recipe for a name already stored
Replaced ==
    (call'.op = "add_recipe" /\ call'.name \in DOMAIN recipes) =>
        LET before == get_recipe(DB, call'.name)[1]
            after  == get_recipe(DB', call'.name)[1]
        IN  /\ after.output_quantity = float(call'.output_quantity)
            /\ after.is_temporary = call'.is_temporary
            /\ after.ship_type = NormaliseShipType(call'.ship_type)
            /\ Len(after.components) = Len(call'.components)
            /\ \A n \in Names :
                  QuantitiesOf(after.components, n) = GivenQuantities(call'.components, n)
            /\ after.blueprint_cost = before.blueprint_cost
            /\ after.creation_cost = before.creation_cost
            /\ after.blueprint_creation_cost = before.blueprint_creation_cost
            /\ after.blueprint_components = before.blueprint_components
            /\ \A other \in DOMAIN recipes \ {call'.name} :
                  get_recipe(DB', other) = get_recipe(DB, other)

\* C29: after add_recipe on a name already stored, get_recipe returns the
\* output quantity, the temporary flag and the ship type given (the ship
\* type stripped, an empty one as none) and, in name order, one component
\* per component given and no other; the blueprint cost, the creation cost,
\* the blueprint creation cost and the blueprint components of the recipe
\* are as they were, and so is every other recipe.
C29_BillReplaced == [][Replaced]_vars

\* Gadget, stored with 4 Bolt, a blueprint and one-off costs, is submitted
\* again as a temporary recipe of 1 Bolt and 1 Nut
C29_Witness ==
    /\ call.op = "add_recipe" /\ call.name = "Gadget" /\ call.is_temporary
    /\ recipes["Widget"] = BlueprintFile.recipes["Widget"]
    /\ recipes["Gadget"].blueprint_components = <<Line("Nut", 1), Line("Bolt", 3)>>
    /\ recipes["Gadget"].blueprint_cost = Some(DInt(50))
    /\ recipes["Gadget"].creation_cost = Some(DInt(5))
    /\ recipes["Gadget"].is_temporary
    /\ recipes["Gadget"].components = <<Line("Bolt", 1), Line("Nut", 1)>>

----------------------------------------------------------------------------
(* Cycles through the blueprint components.                                *)

\* the walk of the blueprint components of stored recipe n can come back to
\* n or to a recipe it is expanding
BlueprintCyclic(n) ==
    \/ n \in BlueprintReachable(n)
    \/ \E r \in BlueprintReachable(n) \cap DOMAIN recipes : Cyclic(r)

\* what can fail the walk of the blueprint components of n before a cycle
\* is closed: a resource that is no recipe and has no price, a sub-recipe
\* whose output quantity is <= 0
BlueprintUnpriced(n) ==
    {r \in BlueprintReachable(n) : r \notin DOMAIN recipes /\ r \notin DOMAIN resources}

BlueprintInvalid(n) ==
    {r \in BlueprintReachable(n) \cap DOMAIN recipes : DLe0(recipes[r].output_quantity)}

\* the events of the walk of the blueprint components in the log of the
\* last call: those after the events of the walk of the components
BlueprintEvents ==
    SubSeq(result.log, Len(ComponentWalk.log) + 1, Len(result.log))

\* the last call walked the components of its recipe without an error and
\* divided the cost by an output quantity other than 0
ComponentsWalked ==
    /\ Walked
    /\ ComponentWalk.error = None
    /\ recipes[call.name].output_quantity.sign # 0

\* C30 (as stated): costing a recipe whose blueprint components lead back to
\* it, or to a recipe that leads back to itself, fails with the
\* circular-reference error (read at an efficiency > 0).
C30_BlueprintCycleAlwaysReported ==
    (Walked /\ BlueprintCyclic(call.name)) =>
        /\ result.raised # None
        /\ result.raised[1].type = "CircularRecipeReferenceError"

\* C30 (amended): the walk of the blueprint components starts with the name
\* of the recipe costed alone in the visiting set; costing a recipe whose
\* blueprint components lead back to it, or to a recipe that leads back to
\* itself, returns no result once the walk of the components has succeeded
\* at an efficiency > 0 and the output quantity is not 0, even when the
\* components lead to no cycle; the error is the circular-reference error,
\* naming a recipe the blueprint leads to, when moreover every resource the
\* blueprint walk can meet is priced and every recipe it can meet has a
\* positive output quantity.
C30_BlueprintCycleReported ==
    /\ (ComponentsWalked /\ recipes[call.name].blueprint_components # <<>>) =>
          /\ BlueprintEvents # <<>>
          /\ BlueprintEvents[1].visiting = {call.name}
    /\ (ComponentsWalked /\ BlueprintCyclic(call.name)) =>
          /\ result.raised # None
          /\ (BlueprintUnpriced(call.name) = {} /\ BlueprintInvalid(call.name) = {}) =>
                /\ result.raised[1].type = "CircularRecipeReferenceError"
                /\ result.raised[1].name \in
                       ({call.name} \cup BlueprintReachable(call.name)) \cap DOMAIN recipes

\* Gadget, made of Bolt alone, is costed after its blueprint was set to
\* Bolt and Gadget itself: the components are walked, then the lookup of
\* Gadget in the blueprint walk fails
C30_Witness ==
    /\ ComponentsWalked /\ call.name = "Gadget"
    /\ Acyclic("Gadget")
    /\ "Gadget" \in BlueprintNames("Gadget")
    /\ BlueprintUnpriced("Gadget") = {} /\ BlueprintInvalid("Gadget") = {}
    /\ result.raised = Some(CircularRecipeReferenceError("Gadget"))
    /\ Len(BlueprintEvents) >= 2

----------------------------------------------------------------------------
(* What a costing call leaves alone.                                       *)

\* a step in which a caller gets the outcome of calculate_recipe_cost
\* leaves every table as it is
TablesKept ==
    call'.op = "calculate_recipe_cost" =>
        /\ recipes' = recipes
        /\ resources' = resources
        /\ ship_type_efficiencies' = ship_type_efficiencies
        /\ config' = config

\* C26: a calculate_recipe_cost call, whether it returns a result or raises,
\* leaves every stored recipe with its components and blueprint components,
\* every resource price, every ship type efficiency and every config value
\* as it was.
C26_ReadOnly == [][TablesKept]_vars

\* Gadget of the file with blueprints is costed: the components are walked,
\* the blueprint walk fails on Nut, and the file is as it was
C26_Witness ==
    /\ Failed /\ call.name = "Gadget" /\ writes = 0
    /\ result.raised = Some(ResourcePriceNotFoundError("Nut"))
    /\ Len(result.log) >= 4
    /\ recipes = BlueprintFile.recipes
    /\ resources = BlueprintFile.resources
    /\ ship_type_efficiencies = BlueprintFile.ship_type_efficiencies
    /\ config = BlueprintFile.config

----------------------------------------------------------------------------
(* The multiplier at each level of the walk.                               *)

\* m to the power k
RECURSIVE Power(_, _)
Power(m, k) ==
    IF k = 0 THEN DInt(1)
    ELSE CHOOSE product \in {DMul(power, m) : power \in {Power(m, k - 1)}} : TRUE

\* the quantity of resource n that one run of stored recipe name consumes,
\* at efficiency 100, on the paths that reach n through exactly k nested
\* expansions: component by component in name order, the quantity in one
\* unit of the output of the sub-recipe times the quantity of the component
RECURSIVE AtDepth(_, _, _)
RECURSIVE AtDepthFrom(_, _, _, _)
AtDepthFrom(components, i, n, k) ==
    IF i = 0 THEN DZero
    ELSE CHOOSE sum \in
             {DAdd(before, through) :
                 before \in {AtDepthFrom(components, i - 1, n, k)},
                 through \in
                     {IF components[i].resource_name \in DOMAIN recipes
                      THEN (IF k = 0 THEN DZero
                            ELSE CHOOSE product \in
                                     {DMul(DDiv(nested,
                                                recipes[components[i].resource_name].output_quantity),
                                           components[i].quantity) :
                                         nested \in {AtDepth(components[i].resource_name, n, k - 1)}} :
                                     TRUE)
                      ELSE IF k = 0 /\ components[i].resource_name = n
                      THEN components[i].quantity
                      ELSE DZero}} : TRUE

AtDepth(name, n, k) ==
    AtDepthFrom(get_recipe(DB, name)[1].components,
                Len(get_recipe(DB, name)[1].components), n, k)

\* the sum over the depths 0..k of multiplier^(depth + 1) times the quantity
\* of n at that depth
RECURSIVE Compounded(_, _, _, _)
Compounded(name, n, m, k) ==
    IF k < 0 THEN DZero
    ELSE CHOOSE sum \in
             {DAdd(before, DMul(power, quantity)) :
                 before \in {Compounded(name, n, m, k - 1)},
                 power \in {Power(m, k + 1)},
                 quantity \in {AtDepth(name, n, k)}} : TRUE

\* the depths at which the walk of stored recipe name reaches resource n
DepthsOf(name, n) == {k \in 0..Cardinality(DOMAIN recipes) : AtDepth(name, n, k).sign # 0}

\* the costs of the entries, each at its compounded quantity
RECURSIVE CompoundedCost(_, _, _)
CompoundedCost(entries, i, m) ==
    IF i = 0 THEN DZero
    ELSE CHOOSE sum \in
             {DAdd(before, DMul(quantity, resources[entries[i].resource_name])) :
                 before \in {CompoundedCost(entries, i - 1, m)},
                 quantity \in {Compounded(call.name, entries[i].resource_name, m,
                                          Cardinality(DOMAIN recipes))}} : TRUE

\* the quotient 1 / q has no more than Prec digits
DividesEvenly(q) == q.sign # 0 /\ DMul(DDiv(DInt(1), q), q) = DInt(1)

\* every division by an output quantity on the walk of the recipe costed
\* is by a quantity that divides evenly
EvenWalk ==
    \A r \in Reachable(call.name) \cap DOMAIN recipes : DividesEvenly(recipes[r].output_quantity)

\* a and b differ by no more than |b| * 10^-26: by the roundings, to Prec
\* digits, of the operations that lead to them
Negated(x) == [x EXCEPT !.sign = -x.sign]
Magnitude(x) == [x EXCEPT !.sign = IF x.sign = 0 THEN 0 ELSE 1]
RoundingSlack == Mk(1, <<1>>, 2 - Prec)

UpToRounding(a, b) ==
    \E x \in {a}, y \in {b} :
        \E off \in {Magnitude(DAdd(x, Negated(y)))}, slack \in {DMul(Magnitude(y), RoundingSlack)} :
            DLe0(DAdd(off, Negated(slack)))

----------------------------------------------------------------------------
(* The visiting set and the activations of recipe_cost.                    *)

\* the names of the recipes whose recipe_cost is active in a call: the
\* recipe costed and the sub-recipes being expanded
StackNames(task) == {task.recipe_name} \cup {task.stack[i].name : i \in 1..Len(task.stack)}

\* C25: once a call has made its visiting set, the set holds exactly the
\* name of the recipe costed and the names of the sub-recipes whose
\* expansion is in progress: a name is in it from the descent into the
\* recipe until that descent has returned, with a cost or with an error.
C25_GuardIsCallStack ==
    \A id \in Calls :
        tasks[id].visiting # {} => tasks[id].visiting = StackNames(tasks[id])

\* C25, for the calls that are still running or have returned a result
C25_GuardWhileWalking ==
    \A id \in Calls :
        (tasks[id].visiting # {}
         /\ (tasks[id].awaiting = "done" => tasks[id].outcome[1].raised = None)) =>
            tasks[id].visiting = StackNames(tasks[id])

----------------------------------------------------------------------------
(* The values given to add_recipe and the values costing reads.            *)

\* the quantities given for n, as they were given
QuantitiesGiven(components, n) ==
    LET naming == SelectSeq(components, LAMBDA c : c.resource_name = n)
    IN  [i \in 1..Len(naming) |-> naming[i].quantity]

\* C22: once add_recipe has returned, the values costing reads from the
\* store are the decimals that were given: get_resource_unit_price returns
\* for every resource named the unit price given for it (in the last
\* component naming it), and get_recipe returns the output quantity and
\* the component quantities given, digit for digit.
C22_ExactDecimal ==
    (call.op = "add_recipe" /\ result.raised = None) =>
        /\ \A n \in Names :
              LastPrice(call.components, n) # None =>
                  get_resource_unit_price(DB, n) = LastPrice(call.components, n)
        /\ get_recipe(DB, call.name)[1].output_quantity = call.output_quantity
        /\ \A n \in Names :
              QuantitiesOf(get_recipe(DB, call.name)[1].components, n)
                  = QuantitiesGiven(call.components, n)

----------------------------------------------------------------------------
(* Parsing of numbers and recipe tables (parse_decimal of database.py,     *)
(* parse_recipe_table of zavod/recipes.py).  A text is a sequence of       *)
(* characters: the digits, the space, the narrow no-break space, the line  *)
(* feed, "." and ","; a word of letters stands as one character, which is  *)
(* all the patterns below can tell about it: a character that is neither   *)
(* a digit nor white space nor a separator.                                *)

Digits == {"0", "1", "2", "3", "4", "5", "6", "7", "8", "9"}

\* U+202F
NarrowNoBreakSpace == "nnbsp"

LineFeed == "\n"

\* what \s matches and str.strip() removes, within a line
Whitespace == {" ", NarrowNoBreakSpace}

\* str.strip()
RECURSIVE Stripped(_)
Stripped(text) ==
    IF text = <<>> THEN text
    ELSE IF text[1] \in Whitespace \cup {LineFeed} THEN Stripped(Tail(text))
    ELSE IF text[Len(text)] \in Whitespace \cup {LineFeed}
    THEN Stripped(SubSeq(text, 1, Len(text) - 1))
    ELSE text

\* the number of digits, of white space characters, from position p on
DigitRun(text, p) ==
    LET stops == {i \in p..Len(text) : text[i] \notin Digits}
    IN  IF stops = {} THEN Len(text) - p + 1 ELSE MinOf(stops) - p

SpaceRun(text, p) ==
    LET stops == {i \in p..Len(text) : text[i] \notin Whitespace}
    IN  IF stops = {} THEN Len(text) - p + 1 ELSE MinOf(stops) - p

DigitValue(c) == CHOOSE n \in 0..9 : ToString(n) = c

\* decimal.Decimal(value) for a text of these characters: white space is
\* stripped, then the text has to be digits, with at most one "." among
\* them and at least one digit; anything else is an InvalidOperation
Decimal(value) ==
    LET text == Stripped(value)
        whole == DigitRun(text, 1)
        point == whole + 1
        fraction == IF point <= Len(text) /\ text[point] = "."
                    THEN DigitRun(text, point + 1) ELSE 0
    IN  IF point > Len(text)
        THEN (IF whole = 0 THEN None
              ELSE Some(Mk(1, [i \in 1..whole |-> DigitValue(text[i])], 0)))
        ELSE IF text[point] = "." /\ point + fraction = Len(text) /\ whole + fraction >= 1
        THEN Some(Mk(1, [i \in 1..whole + fraction |->
                            DigitValue(text[IF i <= whole THEN i ELSE i + 1])],
                     -fraction))
        ELSE None

CannotParse == Error("ValueError", "Cannot parse decimal value", "")

\* parse_decimal
parse_decimal(value) ==
    IF Decimal(value) = None THEN Raised(CannotParse) ELSE Returned(Decimal(value)[1])

\* the maximal runs of two or more white space characters cut a line into
\* its columns: re.split(r"\t|\s{2,}", line), each part stripped, the empty
\* parts dropped
RECURSIVE Columns(_, _, _)
Columns(line, from, p) ==
    IF p > Len(line)
    THEN (IF from > Len(line) THEN <<>> ELSE <<SubSeq(line, from, Len(line))>>)
    ELSE IF SpaceRun(line, p) >= 2
    THEN (IF p > from THEN <<SubSeq(line, from, p - 1)>> ELSE <<>>)
         \o Columns(line, p + SpaceRun(line, p), p + SpaceRun(line, p))
    ELSE Columns(line, from, p + 1)

\* str.splitlines(), every line stripped, the empty lines dropped
RECURSIVE Lines(_, _, _)
Lines(raw_table, from, p) ==
    IF p > Len(raw_table) \/ raw_table[p] = LineFeed
    THEN (IF Stripped(SubSeq(raw_table, from, p - 1)) = <<>> THEN <<>>
          ELSE <<Stripped(SubSeq(raw_table, from, p - 1))>>)
         \o (IF p > Len(raw_table) THEN <<>> ELSE Lines(raw_table, p + 1, p + 1))
    ELSE Lines(raw_table, from, p + 1)

\* header_keywords (those in Latin letters, as the words of the model
\* are), and str.lower() on the words of the model
header_keywords == {"id", "name", "names", "quantity", "valuation", "cost"}

lower(word) ==
    CASE word = "ID"       -> "id"
      [] word = "Name"     -> "name"
      [] word = "Quantity" -> "quantity"
      [] word = "Cost"     -> "cost"
      [] OTHER             -> word

\* separator_class, of the characters of the model
separator_class == {" ", NarrowNoBreakSpace, ".", ","}

\* number_pattern.  The ends (the position after the last character
\* matched) of the matches that start at p, in the order in which the
\* backtracking matcher tries them: first the grouped alternative, the most
\* groups first, then the plain one, the most digits first; either with the
\* longest fraction first and without a fraction last.
FractionEnds(text, q) ==
    IF q <= Len(text) /\ text[q] \in {".", ","} /\ DigitRun(text, q + 1) >= 1
    THEN [k \in 1..DigitRun(text, q + 1) |-> q + 2 + DigitRun(text, q + 1) - k] \o <<q>>
    ELSE <<q>>

\* the groups of a separator and three digits that follow one another from q
RECURSIVE GroupCount(_, _)
GroupCount(text, q) ==
    IF q <= Len(text) /\ text[q] \in separator_class /\ DigitRun(text, q + 1) >= 3
    THEN 1 + GroupCount(text, q + 4)
    ELSE 0

RECURSIVE GroupedEnds(_, _, _)
GroupedEnds(text, q, groups) ==
    IF groups = 0 THEN <<>>
    ELSE FractionEnds(text, q + 4 * groups) \o GroupedEnds(text, q, groups - 1)

RECURSIVE PlainEnds(_, _, _)
PlainEnds(text, p, digits) ==
    IF digits = 0 THEN <<>>
    ELSE FractionEnds(text, p + digits) \o PlainEnds(text, p, digits - 1)

NumberEnds(text, p) ==
    (IF DigitRun(text, p) \in 1..3
     THEN GroupedEnds(text, p + DigitRun(text, p),
                      GroupCount(text, p + DigitRun(text, p)))
     ELSE <<>>)
    \o PlainEnds(text, p, DigitRun(text, p))

\* the first of the ends that satisfies Fits
FirstEnd(ends, Fits(_)) ==
    ends[MinOf({i \in DOMAIN ends : Fits(ends[i])})]

\* the ends of \s+ from p
SpaceEnds(text, p) == p + 1 .. p + SpaceRun(text, p)

MaxOf(S) == CHOOSE i \in S : \A j \in S : j <= i

\* inline_pattern, from its end backwards.  The lookahead at the end c of
\* the total cost: white space then a digit, or nothing but white space
Lookahead(text, c) ==
    \/ /\ SpaceRun(text, c) >= 1
       /\ c + SpaceRun(text, c) <= Len(text)
       /\ text[c + SpaceRun(text, c)] \in Digits
    \/ c + SpaceRun(text, c) = Len(text) + 1

\* the rest of the pattern can match from: the start of the total cost,
\* the end of the quantity, the start of the quantity, the end of the
\* name, the start of the name, the end of the ID
CostFits(text, w) == \E i \in DOMAIN NumberEnds(text, w) : Lookahead(text, NumberEnds(text, w)[i])
QuantityEndFits(text, q) == \E w \in SpaceEnds(text, q) : CostFits(text, w)
QuantityFits(text, w) ==
    \E i \in DOMAIN NumberEnds(text, w) : QuantityEndFits(text, NumberEnds(text, w)[i])
NameEndFits(text, n) == \E w \in SpaceEnds(text, n) : QuantityFits(text, w)
NameFits(text, w) == \E n \in w + 1 .. Len(text) + 1 : NameEndFits(text, n)
IdentifierEndFits(text, a) == \E w \in SpaceEnds(text, a) : NameFits(text, w)

\* inline_pattern matches at p: (?<!\S), then the digits of the ID
MatchesAt(text, p) ==
    /\ p = 1 \/ text[p - 1] \in Whitespace
    /\ DigitRun(text, p) >= 1
    /\ IdentifierEndFits(text, p + DigitRun(text, p))

\* the match at p: \s+ takes the most it can, (.+?) the least, each number
\* the first of its ends
MatchAt(text, p) ==
    LET name_from == MaxOf({w \in SpaceEnds(text, p + DigitRun(text, p)) : NameFits(text, w)})
        name_to == MinOf({n \in name_from + 1 .. Len(text) + 1 : NameEndFits(text, n)})
        quantity_from == MaxOf({w \in SpaceEnds(text, name_to) : QuantityFits(text, w)})
        quantity_to == FirstEnd(NumberEnds(text, quantity_from),
                                LAMBDA q : QuantityEndFits(text, q))
        cost_from == MaxOf({w \in SpaceEnds(text, quantity_to) : CostFits(text, w)})
        cost_to == FirstEnd(NumberEnds(text, cost_from), LAMBDA c : Lookahead(text, c))
    IN  [name |-> SubSeq(text, name_from, name_to - 1),
         quantity |-> SubSeq(text, quantity_from, quantity_to - 1),
         total_cost |-> SubSeq(text, cost_from, cost_to - 1),
         end |-> cost_to]

\* inline_pattern.finditer(line): the matches from left to right, each
\* searched from the end of the one before
RECURSIVE finditer(_, _)
finditer(text, p) ==
    IF p > Len(text) THEN <<>>
    ELSE IF MatchesAt(text, p)
    THEN <<MatchAt(text, p)>> \o finditer(text, MatchAt(text, p).end)
    ELSE finditer(text, p + 1)

\* the ValueErrors of parse_recipe_table, by what their messages say
NoColumns == Error("ValueError", "Every row must have four columns", "")
NoQuantity == Error("ValueError", "The quantity must be greater than zero", "")
NoComponents == Error("ValueError", "No row with a component was found", "")

\* the component of a row: the numbers are parsed, the quantity checked,
\* the total cost divided by the quantity
RowComponent(resource_name, quantity, total_cost) ==
    IF parse_decimal(quantity).raised # None THEN parse_decimal(quantity)
    ELSE IF parse_decimal(total_cost).raised # None THEN parse_decimal(total_cost)
    ELSE IF DLe0(parse_decimal(quantity).value) THEN Raised(NoQuantity)
    ELSE Returned(RecipeComponent(resource_name, parse_decimal(quantity).value,
                                  DDiv(parse_decimal(total_cost).value,
                                       parse_decimal(quantity).value)))

\* the loop over the matches of a line
RECURSIVE MatchComponents(_, _, _)
MatchComponents(matches, i, components) ==
    IF i > Len(matches) THEN Returned(components)
    ELSE LET row == RowComponent(Stripped(matches[i].name), matches[i].quantity,
                                 matches[i].total_cost)
         IN  IF row.raised # None THEN row
             ELSE MatchComponents(matches, i + 1, Append(components, row.value))

\* a line without a digit that holds a header keyword
IsHeader(line) ==
    /\ \A i \in 1..Len(line) : line[i] \notin Digits
    /\ \E i \in 1..Len(line) : lower(line[i]) \in header_keywords

\* a line without a match, by its columns
ColumnComponents(parts, components) ==
    IF parts = <<>> THEN Returned(components)
    ELSE IF \A i \in 1..Len(parts) : Len(parts[i]) = 1 /\ lower(parts[i][1]) \in header_keywords
    THEN Returned(components)
    ELSE IF Len(parts) < 4 THEN Raised(NoColumns)
    ELSE LET row == RowComponent(parts[2], parts[3], parts[4])
         IN  IF row.raised # None THEN row ELSE Returned(Append(components, row.value))

\* the loop over the lines
RECURSIVE LineComponents(_, _, _)
LineComponents(lines, i, components) ==
    IF i > Len(lines)
    THEN (IF components = <<>> THEN Raised(NoComponents) ELSE Returned(components))
    ELSE LET after ==
                 IF IsHeader(lines[i]) THEN Returned(components)
                 ELSE IF finditer(lines[i], 1) # <<>>
                 THEN MatchComponents(finditer(lines[i], 1), 1, components)
                 ELSE ColumnComponents(
                          [k \in 1..Len(Columns(lines[i], 1, 1)) |->
                              Stripped(Columns(lines[i], 1, 1)[k])],
                          components)
         IN  IF after.raised # None THEN after
             ELSE LineComponents(lines, i + 1, after.value)

\* parse_recipe_table
parse_recipe_table(raw_table) == LineComponents(Lines(raw_table, 1, 1), 1, <<>>)

----------------------------------------------------------------------------
(* The texts parsed.                                                       *)

\* the characters of the short texts given to parse_decimal, and the
\* length of the longest of these texts
DecimalCharacters == {"1", "2", " ", NarrowNoBreakSpace, ",", "."}

MaxLen == 3

\* the numerals of the tests of parse_decimal, and some without separators
WrittenNumbers ==
    { <<"1", " ", "2", "3", "4", " ", "5", "6", "7">>,
      <<"1", NarrowNoBreakSpace, "2", "3", "4", NarrowNoBreakSpace, "5", "6", "7", ",", "8", "9">>,
      <<"1", ",", "2", "3", "4", ".", "5">>,
      <<"1", ".", "2", "3", "4", ",", "5">>,
      <<"1", "2", "3", "4", "5", "6", "7">>,
      <<"1", "2", "3", "4", ".", "5">>,
      <<"1", "2", "3", "4", ",", "5">>,
      <<" ", "1", "2", "0", "0", " ">> }

DecimalTexts ==
    WrittenNumbers \cup UNION {[1..n -> DecimalCharacters] : n \in 1..MaxLen}

\* the cells of the rows of a table: ID, name, quantity, total cost (or none)
Tritanium ==
    { <<<<"1", "0", "0", "1">>, <<"Tritanium">>, quantity>> \o total_cost :
        quantity \in { <<"1", "2", "0", "0">>, <<"1", " ", "2", "0", "0">>,
                       <<"1", "2">>, <<"0">> },
        total_cost \in { <<<<"2", "4", "0", "0">>>>, <<<<"2", " ", "4", "0", "0">>>>,
                         <<<<"2", "4">>>>, <<>> } }

Pyerite ==
    { <<<<"1", "0", "0", "2">>, <<"Pyerite">>, quantity, total_cost>> :
        quantity \in { <<"3", "0", "0", "0">>, <<"3", " ", "0", "0", "0">> },
        total_cost \in { <<"1", "5", "0", "0", "0">>, <<"1", "5", " ", "0", "0", "0">> } }

HeaderCells == <<<<"ID">>, <<"Name">>, <<"Quantity">>, <<"Cost">>>>

\* the cells of a row, or the rows of a table, written one after the other
\* with gap between them
RECURSIVE Joined(_, _)
Joined(texts, gap) ==
    IF texts = <<>> THEN <<>>
    ELSE IF Len(texts) = 1 THEN texts[1]
    ELSE texts[1] \o gap \o Joined(Tail(texts), gap)

Indent == <<" ", " ", " ", " ">>

\* a table written on one line, single spaces between cells and rows; and
\* written row by row, the lines indented, wide gaps between the cells
InlineTable(rows) ==
    Joined([i \in 1..Len(rows) |-> Joined(rows[i], <<" ">>)], <<" ">>)

MultilineTable(rows) ==
    <<LineFeed>>
    \o Joined([i \in 1..Len(rows) |-> Indent \o Joined(rows[i], Indent)], <<LineFeed>>)
    \o <<LineFeed>> \o Indent

\* the rows of the tables: one or two rows, with or without a header line
TableRows ==
    UNION { { <<first>>, <<first, second>>, <<HeaderCells, first>>,
              <<HeaderCells, first, second>> } :
            first \in Tritanium, second \in Pyerite }

Tables == {InlineTable(rows) : rows \in TableRows} \cup {MultilineTable(rows) : rows \in TableRows}

\* a text is at hand, not parsed yet
InitParsing ==
    /\ recipes = FreshFile.recipes
    /\ resources = FreshFile.resources
    /\ ship_type_efficiencies = FreshFile.ship_type_efficiencies
    /\ config = FreshFile.config
    /\ \E text \in DecimalTexts \cup Tables : call = [op |-> "text", value |-> text]
    /\ result = Returned("None")
    /\ writes = 0
    /\ tasks = <<>>
    /\ lock = None

ParseDecimal ==
    /\ call.op = "text" /\ call.value \in DecimalTexts
    /\ call' = [op |-> "parse_decimal", value |-> call.value]
    /\ result' = parse_decimal(call.value)
    /\ UNCHANGED <<recipes, resources, ship_type_efficiencies, config, writes, tasks, lock>>

ParseRecipeTable ==
    /\ call.op = "text" /\ call.value \in Tables
    /\ call' = [op |-> "parse_recipe_table", raw_table |-> call.value]
    /\ result' = parse_recipe_table(call.value)
    /\ UNCHANGED <<recipes, resources, ship_type_efficiencies, config, writes, tasks, lock>>

NextParsing ==
    \/ ParseDecimal
    \/ ParseRecipeTable

SpecParsing == InitParsing /\ [][NextParsing]_vars

\* ---------------------------------------------------------------------
\* Numbers written with grouping separators

\* the digits of a whole number, grouped in thousands from the right
RECURSIVE GroupedInThousands(_, _)
GroupedInThousands(digits, thousands) ==
    IF Len(digits) <= 3 THEN digits
    ELSE GroupedInThousands(SubSeq(digits, 1, Len(digits) - 3), thousands)
         \o thousands \o SubSeq(digits, Len(digits) - 2, Len(digits))

\* the whole parts and the fractions of the numerals
WholeParts ==
    { <<"1">>, <<"2">>, <<"1", "2">>, <<"1", "2", "3", "4">>,
      <<"1", "2", "3", "4", "5", "6", "7">> }

Fractions == { <<>>, <<"1">>, <<"2">>, <<"5">>, <<"8", "9">> }

\* how a numeral may be written: thousands grouped by spaces or narrow
\* no-break spaces with either decimal separator; "," and "." in the two
\* roles, one each; or no grouping and a lone "," before the fraction
Notations ==
    { n \in [thousands : {<<>>, <<" ">>, <<NarrowNoBreakSpace>>, <<",">>, <<".">>},
             point : {",", "."}, whole : WholeParts, fraction : Fractions] :
        /\ n.thousands \in {<<",">>, <<".">>} => n.fraction # <<>> /\ n.thousands # <<n.point>>
        /\ n.thousands = <<>> => n.fraction # <<>> /\ n.point = "," }

\* the text of a numeral, and the number it denotes
WrittenAs(n) ==
    GroupedInThousands(n.whole, n.thousands)
    \o (IF n.fraction = <<>> THEN <<>> ELSE <<n.point>> \o n.fraction)

Denoted(n) ==
    Decimal(n.whole \o (IF n.fraction = <<>> THEN <<>> ELSE <<".">> \o n.fraction))[1]

\* C23: parse_decimal returns the number denoted by a numeral written with
\* grouping separators: thousands grouped by spaces or narrow no-break
\* spaces, "," and "." as thousands and decimal separator either way round,
\* or a lone "," as decimal separator; "1 234 567" gives 1234567,
\* "1<nnbsp>234<nnbsp>567,89" gives 1234567.89, "1,234.5" and "1.234,5"
\* give 1234.5
C23_GroupedDecimals ==
    \A n \in Notations :
        (call.op = "parse_decimal" /\ call.value = WrittenAs(n))
            => result = Returned(Denoted(n))

\* ---------------------------------------------------------------------
\* Tables of rows

\* a cell holding a number, read with its single spaces taken out
Ungrouped(cell) == Decimal(SelectSeq(cell, LAMBDA c : c # " "))[1]

\* the rows of a table that are components: all but the header
RowsOfComponents(rows) == SelectSeq(rows, LAMBDA row : row # HeaderCells)

\* the rows that have the four cells ID, name, quantity, total cost, with a
\* quantity above zero
WellFormed(rows) ==
    \A i \in 1..Len(rows) :
        Len(rows[i]) = 4 /\ (rows[i] # HeaderCells => ~DLe0(Ungrouped(rows[i][3])))

\* one component per row, in the order of the rows
ComponentsOfRows(rows) ==
    [i \in 1..Len(RowsOfComponents(rows)) |->
        RecipeComponent(RowsOfComponents(rows)[i][2],
                        Ungrouped(RowsOfComponents(rows)[i][3]),
                        DDiv(Ungrouped(RowsOfComponents(rows)[i][4]),
                             Ungrouped(RowsOfComponents(rows)[i][3])))]

\* C24: parse_recipe_table returns one RecipeComponent per row, in input
\* order, for rows ID, name, quantity, total cost, on separate lines with
\* wide spacing or one after the other on one line, the thousands of the
\* numbers grouped by single spaces or not: the row's name, the quantity,
\* and unit_price = total cost / quantity
C24_TableRows ==
    \A rows \in TableRows :
        (/\ call.op = "parse_recipe_table"
         /\ call.raw_table \in {InlineTable(rows), MultilineTable(rows)}
         /\ WellFormed(rows))
            => result = Returned(ComponentsOfRows(rows))

----------------------------------------------------------------------------
(* Writers and readers on the shared connection, statement by statement.   *)
(* Every await of self._conn.execute or of self._conn.commit is a step at  *)
(* which the event loop may run another call; the awaits that fetch from a *)
(* cursor or close it belong to the step of their statement.  The          *)
(* connection shows every statement executed on it, committed or not.      *)

\* the calls made: add_recipe for a recipe stored and for a new one,
\* set_recipe_blueprint_components for a recipe stored and for one that may
\* be missing, set_config_value, and the reader get_recipe
StoreCalls ==
    { [op |-> "add_recipe", name |-> "Gadget", output_quantity |-> DInt(3),
       components |-> <<Component("Nut", 6, 1), Component("Frame", 5, 7)>>,
       is_temporary |-> FALSE, ship_type |-> None],
      [op |-> "add_recipe", name |-> "Frame", output_quantity |-> DInt(5),
       components |-> <<Component("Bolt", 25, 4)>>,
       is_temporary |-> FALSE, ship_type |-> None],
      [op |-> "set_recipe_blueprint_components", name |-> "Gadget",
       components |-> <<Component("Nut", 1, 2)>>],
      [op |-> "set_recipe_blueprint_components", name |-> "Frame",
       components |-> <<Component("Bolt", 3, 4)>>],
      [op |-> "set_config_value", name |-> "global_efficiency", value |-> [text |-> "other"]],
      [op |-> "get_recipe", name |-> "Gadget"] }

\* a call made: a write operation stands at async with self._lock,
\* get_recipe at its first SELECT
Called(c) ==
    [call |-> c,
     pc |-> IF c.op = "get_recipe" THEN "select_recipe" ELSE "acquire",
     i |-> 1,
     recipe_data |-> None]

\* the first statement of a write operation
FirstStatement(c) ==
    IF c.op = "set_config_value" THEN "upsert_config" ELSE "select_id"

\* the component table a write operation fills
ComponentTable(c) ==
    IF c.op = "add_recipe" THEN "components" ELSE "blueprint_components"

\* for component in components: the statement after i - 1 components
Loop(c, i) == IF i > Len(c.components) THEN "commit" ELSE "insert_component"

At(id, pc) == id \in DOMAIN tasks /\ tasks[id].pc = pc

InitWriters ==
    /\ recipes = ScenarioFile.recipes
    /\ resources = ScenarioFile.resources
    /\ ship_type_efficiencies = ScenarioFile.ship_type_efficiencies
    /\ config = ScenarioFile.config
    /\ call = [op |-> "connect", name |-> ""]
    /\ result = Returned("None")
    /\ writes = 0
    /\ tasks = <<>>
    /\ lock = None

\* a caller calls an operation of the store
CallStore ==
    /\ Len(tasks) < MaxCalls
    /\ \E c \in StoreCalls : tasks' = Append(tasks, Called(c))
    /\ StoreUnchanged

\* were the operations to enter without the lock
AcquireUnlocked(id) ==
    /\ At(id, "acquire")
    /\ lock' = Some(id)
    /\ tasks' = [tasks EXCEPT ![id].pc = FirstStatement(tasks[id].call)]
    /\ UNCHANGED <<recipes, resources, ship_type_efficiencies, config, call, result, writes>>

\* async with self._lock: entered when no call holds the lock
Acquire(id) ==
    /\ At(id, "acquire")
    /\ lock = None
    /\ lock' = Some(id)
    /\ tasks' = [tasks EXCEPT ![id].pc = FirstStatement(tasks[id].call)]
    /\ UNCHANGED <<recipes, resources, ship_type_efficiencies, config, call, result, writes>>

\* SELECT id FROM recipes WHERE name = ?: add_recipe goes on to insert or to
\* update the recipe; set_recipe_blueprint_components raises
\* RecipeNotFoundError when there is no row, leaving the lock
SelectId(id) ==
    /\ At(id, "select_id")
    /\ IF tasks[id].call.name \in DOMAIN recipes
       THEN /\ tasks' = [tasks EXCEPT ![id].pc =
                           IF tasks[id].call.op = "add_recipe"
                           THEN "update_recipe" ELSE "delete_components"]
            /\ UNCHANGED <<call, result, lock>>
       ELSE IF tasks[id].call.op = "add_recipe"
       THEN /\ tasks' = [tasks EXCEPT ![id].pc = "insert_recipe"]
            /\ UNCHANGED <<call, result, lock>>
       ELSE /\ tasks' = [tasks EXCEPT ![id].pc = "done"]
            /\ call' = tasks[id].call
            /\ result' = Raised(RecipeNotFoundError(tasks[id].call.name))
            /\ lock' = None
    /\ UNCHANGED <<recipes, resources, ship_type_efficiencies, config, writes>>

\* INSERT INTO recipes(name, output_quantity, is_temporary, ship_type)
InsertRecipe(id) ==
    /\ At(id, "insert_recipe")
    /\ recipes' = RecipesAfterAdd(recipes, tasks[id].call.name,
                                  tasks[id].call.output_quantity, <<>>,
                                  tasks[id].call.is_temporary, tasks[id].call.ship_type)
    /\ tasks' = [tasks EXCEPT ![id].pc = Loop(tasks[id].call, 1)]
    /\ UNCHANGED <<resources, ship_type_efficiencies, config, call, result, writes, lock>>

\* UPDATE recipes SET output_quantity = ?, is_temporary = ?, ship_type = ?
UpdateRecipe(id) ==
    /\ At(id, "update_recipe")
    /\ recipes' = [recipes EXCEPT ![tasks[id].call.name] =
                      [@ EXCEPT !.output_quantity = float(tasks[id].call.output_quantity),
                                !.is_temporary = tasks[id].call.is_temporary,
                                !.ship_type = NormaliseShipType(tasks[id].call.ship_type)]]
    /\ tasks' = [tasks EXCEPT ![id].pc = "delete_components"]
    /\ UNCHANGED <<resources, ship_type_efficiencies, config, call, result, writes, lock>>

\* DELETE FROM recipe_components, or recipe_blueprint_components, WHERE
\* recipe_id = ?
DeleteComponents(id) ==
    /\ At(id, "delete_components")
    /\ recipes' = RecipesAfterUpdate(recipes, tasks[id].call.name,
                                     ComponentTable(tasks[id].call), <<>>)
    /\ tasks' = [tasks EXCEPT ![id].pc = Loop(tasks[id].call, 1)]
    /\ UNCHANGED <<resources, ship_type_efficiencies, config, call, result, writes, lock>>

\* INSERT INTO recipe_components, or recipe_blueprint_components, the row of
\* component i
InsertComponent(id) ==
    /\ At(id, "insert_component")
    /\ recipes' = RecipesAfterUpdate(
                      recipes, tasks[id].call.name, ComponentTable(tasks[id].call),
                      Append(recipes[tasks[id].call.name][ComponentTable(tasks[id].call)],
                             ComponentRows(tasks[id].call.components)[tasks[id].i]))
    /\ tasks' = [tasks EXCEPT ![id].pc = "upsert_resource"]
    /\ UNCHANGED <<resources, ship_type_efficiencies, config, call, result, writes, lock>>

\* INSERT INTO resources ... ON CONFLICT(name) DO UPDATE, the price of
\* component i
UpsertResource(id) ==
    /\ At(id, "upsert_resource")
    /\ resources' = UpsertPrices(resources, <<tasks[id].call.components[tasks[id].i]>>, 1)
    /\ tasks' = [tasks EXCEPT ![id].i = @ + 1,
                              ![id].pc = Loop(tasks[id].call, tasks[id].i + 1)]
    /\ UNCHANGED <<recipes, ship_type_efficiencies, config, call, result, writes, lock>>

\* INSERT INTO config ... ON CONFLICT(key) DO UPDATE
UpsertConfig(id) ==
    /\ At(id, "upsert_config")
    /\ config' = [k \in DOMAIN config \cup {tasks[id].call.name} |->
                     IF k = tasks[id].call.name THEN tasks[id].call.value ELSE config[k]]
    /\ tasks' = [tasks EXCEPT ![id].pc = "commit"]
    /\ UNCHANGED <<recipes, resources, ship_type_efficiencies, call, result, writes, lock>>

\* self._conn.commit(), the end of the operation: the lock is left
Commit(id) ==
    /\ At(id, "commit")
    /\ tasks' = [tasks EXCEPT ![id].pc = "done"]
    /\ call' = tasks[id].call
    /\ result' = Returned("None")
    /\ lock' = None
    /\ UNCHANGED <<recipes, resources, ship_type_efficiencies, config, writes>>

\* get_recipe, its SELECT ... FROM recipes WHERE name = ?: None is returned
\* when there is no row
SelectRecipe(id) ==
    /\ At(id, "select_recipe")
    /\ IF tasks[id].call.name \notin DOMAIN recipes
       THEN /\ tasks' = [tasks EXCEPT ![id].pc = "done"]
            /\ call' = tasks[id].call
            /\ result' = Returned(None)
       ELSE /\ tasks' = [tasks EXCEPT
                           ![id].pc = "select_components",
                           ![id].recipe_data =
                               Some(RecipeOf(tasks[id].call.name,
                                             [recipes[tasks[id].call.name] EXCEPT
                                                 !.components = <<>>,
                                                 !.blueprint_components = <<>>]))]
            /\ UNCHANGED <<call, result>>
    /\ UNCHANGED <<recipes, resources, ship_type_efficiencies, config, writes, lock>>

\* get_recipe, its SELECT ... FROM recipe_components ... ORDER BY resource_name
SelectComponents(id) ==
    /\ At(id, "select_components")
    /\ tasks[id].call.name \in DOMAIN recipes
    /\ tasks' = [tasks EXCEPT
                    ![id].pc = "select_blueprint_components",
                    ![id].recipe_data =
                        Some([tasks[id].recipe_data[1] EXCEPT
                                 !.components =
                                     OrderByName(recipes[tasks[id].call.name].components)])]
    /\ StoreUnchanged

\* get_recipe, its SELECT ... FROM recipe_blueprint_components, and the
\* return of recipe_data
SelectBlueprintComponents(id) ==
    /\ At(id, "select_blueprint_components")
    /\ tasks[id].call.name \in DOMAIN recipes
    /\ tasks' = [tasks EXCEPT ![id].pc = "done"]
    /\ call' = tasks[id].call
    /\ result' =
           Returned(Some([tasks[id].recipe_data[1] EXCEPT
                             !.blueprint_components =
                                 OrderByName(recipes[tasks[id].call.name].blueprint_components)]))
    /\ UNCHANGED <<recipes, resources, ship_type_efficiencies, config, writes, lock>>

NextWriters ==
    \/ CallStore
    \/ \E id \in 1..MaxCalls : Acquire(id)
    \/ \E id \in 1..MaxCalls : SelectId(id)
    \/ \E id \in 1..MaxCalls : InsertRecipe(id)
    \/ \E id \in 1..MaxCalls : UpdateRecipe(id)
    \/ \E id \in 1..MaxCalls : DeleteComponents(id)
    \/ \E id \in 1..MaxCalls : InsertComponent(id)
    \/ \E id \in 1..MaxCalls : UpsertResource(id)
    \/ \E id \in 1..MaxCalls : UpsertConfig(id)
    \/ \E id \in 1..MaxCalls : Commit(id)
    \/ \E id \in 1..MaxCalls : SelectRecipe(id)
    \/ \E id \in 1..MaxCalls : SelectComponents(id)
    \/ \E id \in 1..MaxCalls : SelectBlueprintComponents(id)

SpecWriters == InitWriters /\ [][NextWriters]_vars

\* a write operation that has entered and has not returned: from its first
\* statement to its commit
Writing(id) == id \in DOMAIN tasks /\ tasks[id].call.op # "get_recipe" /\ tasks[id].pc \notin {"acquire", "done"}

\* call id executes a statement or its commit
Executes(id) == Writing(id) /\ tasks'[id] # tasks[id]

\* after the step at most one write operation is between its first statement
\* and its commit, and the step is a statement of a write operation only if
\* no other write operation is between its first statement and its commit
SingleWriter ==
    /\ \A a, b \in DOMAIN tasks' : (a # b /\ Writing(a)') => ~Writing(b)'
    /\ \A a, b \in DOMAIN tasks : (a # b /\ Executes(a)) => ~Writing(b)

\* C21: single writer: at any time at most one write operation of the store
\* is between its first statement and its commit, and the statements of two
\* concurrent writers never interleave
C21_SingleWriter == [][SingleWriter]_vars

\* two write operations called, one between its statements, the other kept
\* waiting at the lock
C21_Witness ==
    \E a, b \in DOMAIN tasks :
        /\ tasks[a].pc = "upsert_resource" /\ tasks[a].call.op = "add_recipe"
        /\ tasks[b].pc = "acquire"
        /\ lock = Some(a)

\* the complete component lists recipe name has had: the list stored at the
\* start and the lists given to add_recipe
CompleteLists(name) ==
    {OrderByName(ScenarioFile.recipes[name].components)}
    \cup {OrderByName(ComponentRows(tasks[id].call.components)) :
            id \in {k \in DOMAIN tasks : tasks[k].call.op = "add_recipe" /\ tasks[k].call.name = name}}

\* C28: per-lookup read atomicity: a get_recipe(R) that runs while add_recipe
\* replaces the components of R returns the complete old or the complete new
\* component list of R, never an empty or a partly inserted one
C28_LookupAtomic ==
    (call.op = "get_recipe" /\ result.raised = None /\ result.value # None)
        => result.value[1].components \in CompleteLists(call.name)

====
